---- MODULE Spec2Model ----
(***************************************************************************)
(* A model of the taipublicchain node kernel.                              *)
(*                                                                         *)
(* Part I  (specification Spec): the genesis bootstrap of core/genesis.go: *)
(*   SetupGenesisBlock, setupFastGenesisBlock, setupSnailGenesisBlock,     *)
(*   CommitFast, CommitSnail, ToFastBlock, ToSnailBlock, configOrDefault,  *)
(*   over a key/value database holding the fast and the snail chain.       *)
(*                                                                         *)
(* Part II (specification SpecBFT): the PBFT round state machine of one    *)
(*   fast-block height (Propose, Prevote, Precommit, Commit, NextRound).   *)
(*                                                                         *)
(* Part III (specification SpecSnail): the snail block chain, a            *)
(*   heaviest-chain store of PoW blocks that embed fruits.                 *)
(*                                                                         *)
(* Part IV (specification SpecFast): the committed fast chain as the API   *)
(*   backend of tai/api_backend.go shows it: the by-number queries,        *)
(*   SetHead and the FastChainHeadEvent subscriptions.                     *)
(*                                                                         *)
(* Part V (specification SpecNode): the life cycle of the full node        *)
(*   service of tai/backend.go (New, Start, Stop) on the chain database.   *)
(*                                                                         *)
(* Part VI (specification SpecCommittee): the committee that               *)
(*   Genesis.ToFastBlock puts into the fast genesis block.                 *)
(*                                                                         *)
(* Part VII (specification SpecMeter): the metered message stream of       *)
(*   tai/metrics.go (ReadMsg, WriteMsg).                                   *)
(*                                                                         *)
(* Part VIII (specification SpecSync): SetHead and SetSnailHead of the API *)
(*   backend next to the downloader's sync session.                        *)
(***************************************************************************)
EXTENDS Integers, Sequences, FiniteSets, TLC

VARIABLES
    db,        \* the chain database (taidb.Database): fast and snail key spaces
    last,      \* the last call made on the database: its arguments, the database before it and what it returned
    round,     \* BFT: round[v], the round validator v is in
    step,      \* BFT: step[v], position of v inside its round
    lockedValue,   \* BFT: the block v is locked on (NilBlock when unlocked)
    lockedRound,   \* BFT: the round v locked in ({} when unlocked)
    decision,      \* BFT: the block v committed (NilBlock before commit)
    proposals,     \* BFT: Proposal messages broadcast, <<round, block>>
    prevotes,      \* BFT: Prevote messages signed, [src, round, block]
    precommits,    \* BFT: Precommit messages signed, [src, round, block]
    byzRound,      \* BFT: Byzantine members have signed and flooded their votes for every round below byzRound
    snailChain,    \* snail chain: the snail blocks stored, [hash, parent, number, difficulty, fruits, td]
    snailCurrent,  \* snail chain: hash of the canonical head (CurrentBlock)
    fastChain,     \* fast chain: the committed canonical blocks [number, fork], genesis first
    rewinds,       \* fast chain: number of SetHead rewinds so far; names the fork a block is committed on
    minerPending,  \* the miner's pending block: an uncommitted candidate on top of some head
    chainHeadCh,   \* chainHeadCh[s]: FastChainHeadEvents sent to subscriber s and not yet received
    received,      \* received[s]: the FastChainHeadEvents subscriber s has received, in order
    apiResult,     \* the last query answered by the API backend and its answer
    tai,           \* the Taichain service object: its life-cycle state and the optional servers it holds
    built,         \* the last fast genesis block built by Genesis.ToFastBlock: the genesis, the block, and whether the call panicked
    meters,        \* meters[m]: what the metrics meter m has counted (packets for a packets meter, bytes for a traffic meter), for the meters marked so far
    lastMsg,       \* the last message that passed the metered stream: direction, code, size, error and the meters it was counted on
    newCalls,      \* the number of times the node has run New on the database
    syncSession,   \* the downloader's sync session: its number and whether it is active, cancelled or done
    setHeadCall,   \* the SetHead or SetSnailHead call in progress on the API backend: its argument, the steps it has taken, and the session that was active when it began
    ebNode,   \* the etherbase of the node, the coinbase of the agent's committee node, the etherbase of the miner, and the history of the etherbase calls
    ebCalls,   \* per caller, its Etherbase or SetEtherbase call in flight or returned
    nodeCall       \* the last life-cycle call (New, Start, Stop): its arguments, what it returned and the steps it took, in order

genesisVars == <<db, last>>
bftVars == <<round, step, lockedValue, lockedRound, decision, proposals, prevotes, precommits, byzRound>>
snailVars == <<snailChain, snailCurrent>>
fastVars == <<fastChain, rewinds, minerPending, chainHeadCh, received, apiResult>>
nodeVars == <<tai, nodeCall, newCalls>>
committeeVars == <<built>>
meterVars == <<meters, lastMsg>>
syncVars == <<syncSession, setHeadCall>>
etherbaseVars == <<ebNode, ebCalls>>
vars == <<genesisVars, bftVars, snailVars, fastVars, nodeVars, committeeVars, meterVars, syncVars, etherbaseVars>>
\* What the operations of one part leave alone.
exceptGenesis == <<bftVars, snailVars, fastVars, nodeVars, committeeVars, meterVars, syncVars, etherbaseVars>>
exceptBFT == <<genesisVars, snailVars, fastVars, nodeVars, committeeVars, meterVars, syncVars, etherbaseVars>>
exceptSnail == <<genesisVars, bftVars, fastVars, nodeVars, committeeVars, meterVars, syncVars, etherbaseVars>>
exceptFast == <<genesisVars, bftVars, snailVars, nodeVars, committeeVars, meterVars, syncVars, etherbaseVars>>
exceptNode == <<bftVars, snailVars, fastVars, committeeVars, meterVars, syncVars, etherbaseVars>>
exceptCommittee == <<genesisVars, bftVars, snailVars, fastVars, nodeVars, meterVars, syncVars, etherbaseVars>>
exceptMeter == <<genesisVars, bftVars, snailVars, fastVars, nodeVars, committeeVars, syncVars, etherbaseVars>>
exceptSync == <<genesisVars, bftVars, snailVars, fastVars, nodeVars, committeeVars, meterVars, etherbaseVars>>
exceptEtherbase == <<genesisVars, bftVars, snailVars, fastVars, nodeVars, committeeVars, meterVars, syncVars>>

(***************************************************************************)
(* Bounds of the model.                                                    *)
(***************************************************************************)
\* Highest fast block number the chain grows to by InsertChain.
MaxHeight == 3
\* Highest fork block number a custom chain configuration schedules.
MaxFork == 2

(***************************************************************************)
(* Chain configurations (params.ChainConfig).  A configuration is its      *)
(* chain id and the block number of its fork switch-over: Fork is {} for a *)
(* nil block number and {n} for block n.                                   *)
(***************************************************************************)
\* A nil *params.ChainConfig.
NoConfig == [ChainID |-> "nil", Fork |-> {}]
MainnetChainConfig == [ChainID |-> "mainnet", Fork |-> {}]
TestnetChainConfig == [ChainID |-> "testnet", Fork |-> {}]
AllMinervaProtocolChanges == [ChainID |-> "allminerva", Fork |-> {}]
\* A custom configuration whose fork switches over at block f (f = 0: no fork block, &ChainConfig{}).
CustomConfig(f) == [ChainID |-> "custom", Fork |-> IF f = 0 THEN {} ELSE {f}]

(***************************************************************************)
(* Genesis specifications.  Mixhash, Coinbase, GasUsed and ParentHash are  *)
(* zero in every genesis below and are left out of the record.             *)
(* Difficulty is {} for a nil *big.Int and {d} for d; difficulties are in   *)
(* units of 16, which keeps the main-net 2^31 inside the checker's         *)
(* integers (2147483648 = 16 * 134217728, 100000 = 16 * 6250).             *)
(***************************************************************************)
\* A nil *Genesis.
NilGenesis == [IsNil |-> TRUE]

GenesisGasLimit == 4712388
GenesisDifficulty == 1024
FruitBlockRatio == 64

MainnetCommittee == <<"key1", "key2", "key3", "key4">>

DefaultGenesisBlock ==
    [Config |-> MainnetChainConfig, Nonce |-> 330, Timestamp |-> 0,
     ExtraData |-> "TrueChain MainNet", GasLimit |-> 16777216,
     Difficulty |-> {134217728}, Alloc |-> "mainnetAlloc",
     Committee |-> MainnetCommittee, Number |-> 0]

DefaultTestnetGenesisBlock ==
    [Config |-> TestnetChainConfig, Nonce |-> 928, Timestamp |-> 1537891200,
     ExtraData |-> "TrueChain TestNet 05", GasLimit |-> 20971520,
     Difficulty |-> {6250}, Alloc |-> "testnetAlloc",
     Committee |-> MainnetCommittee, Number |-> 0]

\* new(Genesis): every field zero, Config nil.
EmptyGenesis ==
    [Config |-> NoConfig, Nonce |-> 0, Timestamp |-> 0, ExtraData |-> "",
     GasLimit |-> 0, Difficulty |-> {}, Alloc |-> "", Committee |-> <<>>, Number |-> 0]

\* customg of the tests: only Alloc and Config set.
CustomGenesis(f) ==
    [EmptyGenesis EXCEPT !.Config = CustomConfig(f), !.Alloc = "customAlloc"]

\* The genesis specifications the callers pass.
Genesises ==
    {DefaultGenesisBlock, DefaultTestnetGenesisBlock, EmptyGenesis}
      \cup {CustomGenesis(f) : f \in 0..MaxFork}
      \* the main-net genesis with another seal nonce: same fast block, another snail block
      \cup {[DefaultGenesisBlock EXCEPT !.Nonce = 331]}
      \* the main-net genesis under a configuration with a fork block
      \cup {[DefaultGenesisBlock EXCEPT !.Config = [MainnetChainConfig EXCEPT !.Fork = {1}]]}
      \* a consensus-test genesis with Number > 0
      \cup {[CustomGenesis(0) EXCEPT !.Number = 1]}

(***************************************************************************)
(* Hashes.  A block hash is the tuple of the header fields it commits to   *)
(* (a collision-free hash); common.Hash{} is the empty tuple.              *)
(***************************************************************************)
ZeroHash == <<>>

\* The public keys of the main-net committee (key1..key4 of DefaultGenesisBlock).
Pubkeys == {"key1", "key2", "key3", "key4"}

\* crypto.UnmarshalPubkey: the key the bytes encode, NilPubkey (with an
\* error) when they encode none.
NilPubkey == [curve |-> "nil"]
UnmarshalPubkey(bytes) ==
    IF bytes \in Pubkeys THEN [curve |-> "S256", point |-> bytes] ELSE NilPubkey

\* crypto.PubkeyToAddress: the last 20 bytes of the Keccak256 of the point.
PubkeyToAddress(pubkey) == <<"Keccak256[12:]", pubkey.point>>

StateUsedFlag == "StateUsedFlag"
TypeFixed == "TypeFixed"

\* The body of the member loop of ToFastBlock with the type of an elected member.
FixedMemberAsWorked(publickey) ==
    [Publickey |-> publickey, Flag |-> StateUsedFlag, MType |-> "TypeWorked",
     CommitteeBase |-> PubkeyToAddress(UnmarshalPubkey(publickey))]

\* The body of the member loop of ToFastBlock.  A member of Genesis.Committee
\* is given by its Publickey bytes (its Coinbase is left out).
FixedMember(publickey) ==
    [Publickey |-> publickey, Flag |-> StateUsedFlag, MType |-> TypeFixed,
     CommitteeBase |-> PubkeyToAddress(UnmarshalPubkey(publickey))]

\* The member loop of ToFastBlock dereferences the key it unmarshalled
\* without looking at the error: it panics on bytes that are no public key.
SwitchInfoPanics(committee) ==
    \E i \in 1..Len(committee) : UnmarshalPubkey(committee[i]) = NilPubkey

\* committee.Members after the member loop of ToFastBlock.
SwitchInfoMembers(committee) ==
    [i \in 1..Len(committee) |-> FixedMember(committee[i])]

\* Header of the block Genesis.ToFastBlock builds, with its switch info, and its hash.
ToFastBlock(g) ==
    <<"fast", g.Number, g.Timestamp, g.ExtraData,
      IF g.GasLimit = 0 THEN GenesisGasLimit ELSE g.GasLimit,
      g.Alloc, SwitchInfoMembers(g.Committee)>>

\* The switch info of a fast block.
SwitchInfos(block) == block[7]

\* Genesis.ToSnailBlock sets a nil Difficulty to params.GenesisDifficulty, in the header and in g.
DifficultyOf(g) ==
    IF g.Difficulty = {} THEN GenesisDifficulty ELSE CHOOSE d \in g.Difficulty : TRUE

\* The fruit ToSnailBlock embeds: it references the fast genesis block.
GenesisFruit(g) ==
    [FastNumber |-> g.Number, FastHash |-> ToFastBlock(g),
     FruitDifficulty |-> DifficultyOf(g) \div FruitBlockRatio]

\* Header of the block Genesis.ToSnailBlock builds, and its hash.
ToSnailBlock(g) ==
    <<"snail", g.Number, g.Nonce, g.Timestamp, g.ExtraData, DifficultyOf(g), ToFastBlock(g)>>

MainnetGenesisHash == ToFastBlock(DefaultGenesisBlock)
MainnetSnailGenesisHash == ToSnailBlock(DefaultGenesisBlock)
TestnetGenesisHash == ToFastBlock(DefaultTestnetGenesisBlock)
TestnetSnailGenesisHash == ToSnailBlock(DefaultTestnetGenesisBlock)

\* Number of a block, read off its hash tuple.
NumberOf(h) == h[2]

(***************************************************************************)
(* The database.                                                           *)
(***************************************************************************)
EmptyDB ==
    [fastBlocks |-> {}, fastCanon |-> [n \in 0..MaxHeight |-> ZeroHash],
     headBlockHash |-> ZeroHash, headHeaderHash |-> ZeroHash,
     receipts |-> {}, chainConfig |-> {}, trie |-> {},
     snailBlocks |-> {}, snailCanon |-> [n \in {0} |-> ZeroHash],
     snailHeadBlockHash |-> ZeroHash, snailHeadHeaderHash |-> ZeroHash,
     snailTd |-> {}, ftLookup |-> {}, databaseVersion |-> 0]

\* rawdb.ReadCanonicalHash / snaildb.ReadCanonicalHash
ReadCanonicalHash(d, n) == d.fastCanon[n]
ReadSnailCanonicalHash(d, n) == d.snailCanon[n]

\* rawdb.ReadChainConfig: the configuration stored for a genesis hash, NoConfig when there is none.
ReadChainConfig(d, h) ==
    IF \E e \in d.chainConfig : e[1] = h
    THEN (CHOOSE e \in d.chainConfig : e[1] = h)[2]
    ELSE NoConfig

\* rawdb.WriteChainConfig
WriteChainConfig(d, h, cfg) ==
    [d EXCEPT !.chainConfig = {e \in @ : e[1] # h} \cup {<<h, cfg>>}]

\* rawdb.ReadHeaderNumber: {} when the header is unknown.
ReadHeaderNumber(d, h) == IF h \in d.fastBlocks THEN {NumberOf(h)} ELSE {}

(***************************************************************************)
(* Errors.                                                                 *)
(***************************************************************************)
NoErr == [kind |-> "nil"]
errGenesisNoConfig == [kind |-> "genesis has no chain configuration"]
errGenesisNumber == [kind |-> "can't commit genesis block with number > 0"]
errMissingNumber == [kind |-> "missing block number for head header hash"]
GenesisMismatchError(stored, new) ==
    [kind |-> "GenesisMismatchError", Stored |-> stored, New |-> new]
ConfigCompatError(storedblock, newblock, rewindTo) ==
    [kind |-> "ConfigCompatError", StoredConfig |-> storedblock,
     NewConfig |-> newblock, RewindTo |-> rewindTo]

(***************************************************************************)
(* params.ChainConfig.CheckCompatible.                                     *)
(***************************************************************************)
\* isForked: the fork block s is scheduled at or below head.
isForked(s, head) == \E b \in s : b <= head

\* isForkIncompatible: a fork already passed is rescheduled.
isForkIncompatible(s1, s2, head) ==
    (isForked(s1, head) \/ isForked(s2, head)) /\ s1 # s2

\* newCompatError: rewind to just below the lower of the two fork blocks.
newCompatError(storedblock, newblock) ==
    LET rew == IF storedblock = {} THEN newblock
               ELSE IF newblock = {} THEN storedblock
               ELSE IF (CHOOSE b \in storedblock : TRUE) < (CHOOSE b \in newblock : TRUE)
                    THEN storedblock
                    ELSE newblock
    IN ConfigCompatError(storedblock, newblock,
           IF \E b \in rew : b > 0 THEN (CHOOSE b \in rew : TRUE) - 1 ELSE 0)

\* checkCompatible: one pass over the fork blocks at a given head.
checkCompatible(c, newcfg, head) ==
    IF isForkIncompatible(c.Fork, newcfg.Fork, head)
    THEN newCompatError(c.Fork, newcfg.Fork)
    ELSE NoErr

RECURSIVE CheckCompatibleFrom(_, _, _, _)
\* The loop of CheckCompatible: repeat at the rewind height until the lowest conflict is found.
CheckCompatibleFrom(c, newcfg, bhead, lasterr) ==
    LET err == checkCompatible(c, newcfg, bhead) IN
    IF err = NoErr \/ (lasterr # NoErr /\ err.RewindTo = lasterr.RewindTo)
    THEN lasterr
    ELSE CheckCompatibleFrom(c, newcfg, err.RewindTo, err)

CheckCompatible(c, newcfg, height) == CheckCompatibleFrom(c, newcfg, height, NoErr)

(***************************************************************************)
(* Genesis.configOrDefault                                                 *)
(***************************************************************************)
configOrDefault(g, ghash) ==
    IF g # NilGenesis THEN g.Config
    ELSE IF ghash = MainnetGenesisHash THEN MainnetChainConfig
    ELSE IF ghash = MainnetSnailGenesisHash THEN MainnetChainConfig
    ELSE IF ghash = TestnetGenesisHash THEN TestnetChainConfig
    ELSE IF ghash = TestnetSnailGenesisHash THEN TestnetChainConfig
    ELSE AllMinervaProtocolChanges

(***************************************************************************)
(* Genesis.CommitFast and Genesis.CommitSnail.  The result is the database *)
(* after the call, the block returned (ZeroHash stands for a nil block     *)
(* pointer) and the error.                                                 *)
(***************************************************************************)
\* ToFastBlock(db) with a database commits the genesis state trie to it.
WriteGenesisState(d, g) == [d EXCEPT !.trie = @ \cup {g.Alloc}]

CommitFast(d, g) ==
    LET block == ToFastBlock(g)
        d1 == WriteGenesisState(d, g)
        config == IF g.Config = NoConfig THEN AllMinervaProtocolChanges ELSE g.Config
    IN IF g.Number # 0
       THEN [db |-> d1, block |-> ZeroHash, err |-> errGenesisNumber]
       ELSE [db |-> WriteChainConfig(
                        [d1 EXCEPT !.fastBlocks = @ \cup {block},
                                   !.receipts = @ \cup {block},
                                   !.fastCanon[0] = block,
                                   !.headBlockHash = block,
                                   !.headHeaderHash = block],
                        block, config),
             block |-> block, err |-> NoErr]

\* The snail block stored: its hash, number, difficulty and embedded fruits.
SnailBlock(g) ==
    [hash |-> ToSnailBlock(g), number |-> g.Number,
     difficulty |-> DifficultyOf(g), fruits |-> {GenesisFruit(g)}]

\* CommitSnail without the two head pointer writes.
CommitSnailNoHead(d, g) ==
    LET block == SnailBlock(g)
        d1 == WriteGenesisState(d, g)
    IN IF g.Number # 0
       THEN [db |-> d1, block |-> ZeroHash, err |-> errGenesisNumber]
       ELSE [db |-> [d1 EXCEPT !.snailTd = {e \in @ : e[1] # block.hash}
                                            \cup {<<block.hash, DifficultyOf(g)>>},
                               !.snailBlocks = @ \cup {block},
                               !.ftLookup = @ \cup {<<f.FastHash, block.hash>> : f \in block.fruits},
                               !.snailCanon[0] = block.hash],
             block |-> block.hash, err |-> NoErr]

CommitSnail(d, g) ==
    LET block == SnailBlock(g)
        d1 == WriteGenesisState(d, g)
    IN IF g.Number # 0
       THEN [db |-> d1, block |-> ZeroHash, err |-> errGenesisNumber]
       ELSE [db |-> [d1 EXCEPT !.snailTd = {e \in @ : e[1] # block.hash}
                                            \cup {<<block.hash, DifficultyOf(g)>>},
                               !.snailBlocks = @ \cup {block},
                               !.ftLookup = @ \cup {<<f.FastHash, block.hash>> : f \in block.fruits},
                               !.snailCanon[0] = block.hash,
                               !.snailHeadBlockHash = block.hash,
                               !.snailHeadHeaderHash = block.hash],
             block |-> block.hash, err |-> NoErr]

(***************************************************************************)
(* setupFastGenesisBlock, setupSnailGenesisBlock, SetupGenesisBlock.       *)
(* A result is [db, config, hash, err, panic]; panic is TRUE when the call *)
(* does not return: block.Hash() on the nil block of a failed commit.      *)
(***************************************************************************)
SetupResult(d, config, hash, err) ==
    [db |-> d, config |-> config, hash |-> hash, err |-> err, panic |-> FALSE]

SetupPanic(d) ==
    [db |-> d, config |-> NoConfig, hash |-> ZeroHash, err |-> NoErr, panic |-> TRUE]

\* updateChainConfig writing the new config before the compatibility check.
updateChainConfigWriteFirst(d, genesis, stored) ==
    LET newcfg == configOrDefault(genesis, stored)
        storedcfg == ReadChainConfig(d, stored)
        height == ReadHeaderNumber(d, d.headHeaderHash)
        written == WriteChainConfig(d, stored, newcfg)
    IN IF storedcfg = NoConfig
       THEN SetupResult(written, newcfg, stored, NoErr)
       ELSE IF genesis = NilGenesis /\ stored # MainnetGenesisHash
       THEN SetupResult(d, storedcfg, stored, NoErr)
       ELSE IF height = {}
       THEN SetupResult(d, newcfg, stored, errMissingNumber)
       ELSE LET h == CHOOSE n \in height : TRUE
                compatErr == CheckCompatible(storedcfg, newcfg, h)
            IN IF compatErr # NoErr /\ h # 0 /\ compatErr.RewindTo # 0
               THEN SetupResult(written, newcfg, stored, compatErr)
               ELSE SetupResult(written, newcfg, stored, NoErr)

\* The tail of setupFastGenesisBlock: the stored genesis is the one asked for.
updateChainConfig(d, genesis, stored) ==
    LET newcfg == configOrDefault(genesis, stored)
        storedcfg == ReadChainConfig(d, stored)
        height == ReadHeaderNumber(d, d.headHeaderHash)
    IN IF storedcfg = NoConfig
       THEN SetupResult(WriteChainConfig(d, stored, newcfg), newcfg, stored, NoErr)
       ELSE IF genesis = NilGenesis /\ stored # MainnetGenesisHash
       THEN SetupResult(d, storedcfg, stored, NoErr)
       ELSE IF height = {}
       THEN SetupResult(d, newcfg, stored, errMissingNumber)
       ELSE LET h == CHOOSE n \in height : TRUE
                compatErr == CheckCompatible(storedcfg, newcfg, h)
            IN IF compatErr # NoErr /\ h # 0 /\ compatErr.RewindTo # 0
               THEN SetupResult(d, newcfg, stored, compatErr)
               ELSE SetupResult(WriteChainConfig(d, stored, newcfg), newcfg, stored, NoErr)

setupFastGenesisBlock(d, genesis) ==
    IF genesis # NilGenesis /\ genesis.Config = NoConfig
    THEN SetupResult(d, AllMinervaProtocolChanges, ZeroHash, errGenesisNoConfig)
    ELSE LET stored == ReadCanonicalHash(d, 0) IN
         IF stored = ZeroHash
         THEN LET g == IF genesis = NilGenesis THEN DefaultGenesisBlock ELSE genesis
                  c == CommitFast(d, g)
              IN IF c.block = ZeroHash
                 THEN SetupPanic(c.db)
                 ELSE SetupResult(c.db, g.Config, c.block, c.err)
         ELSE IF genesis # NilGenesis /\ ToFastBlock(genesis) # stored
         THEN SetupResult(d, genesis.Config, ToFastBlock(genesis),
                          GenesisMismatchError(stored, ToFastBlock(genesis)))
         ELSE updateChainConfig(d, genesis, stored)

setupSnailGenesisBlock(d, genesis) ==
    IF genesis # NilGenesis /\ genesis.Config = NoConfig
    THEN SetupResult(d, AllMinervaProtocolChanges, ZeroHash, errGenesisNoConfig)
    ELSE LET stored == ReadSnailCanonicalHash(d, 0) IN
         IF stored = ZeroHash
         THEN LET g == IF genesis = NilGenesis THEN DefaultGenesisBlock ELSE genesis
                  c == CommitSnail(d, g)
              IN IF c.block = ZeroHash
                 THEN SetupPanic(c.db)
                 ELSE SetupResult(c.db, g.Config, c.block, c.err)
         ELSE IF genesis # NilGenesis /\ ToSnailBlock(genesis) # stored
         THEN SetupResult(d, genesis.Config, ToSnailBlock(genesis),
                          GenesisMismatchError(stored, ToSnailBlock(genesis)))
         ELSE SetupResult(d, configOrDefault(genesis, stored), stored, NoErr)

\* SetupGenesisBlock returning the genesis' own (nil) config when it has none.
SetupGenesisBlockNilConfig(d, genesis) ==
    IF genesis # NilGenesis /\ genesis.Config = NoConfig
    THEN [db |-> d, config |-> genesis.Config, fastHash |-> ZeroHash,
          snailHash |-> ZeroHash, err |-> errGenesisNoConfig, panic |-> FALSE]
    ELSE LET fast == setupFastGenesisBlock(d, genesis) IN
         IF fast.panic
         THEN [db |-> fast.db, config |-> NoConfig, fastHash |-> ZeroHash,
               snailHash |-> ZeroHash, err |-> NoErr, panic |-> TRUE]
         ELSE LET snail == setupSnailGenesisBlock(fast.db, genesis) IN
              IF snail.panic
              THEN [db |-> snail.db, config |-> NoConfig, fastHash |-> ZeroHash,
                    snailHash |-> ZeroHash, err |-> NoErr, panic |-> TRUE]
              ELSE [db |-> snail.db, config |-> fast.config, fastHash |-> fast.hash,
                    snailHash |-> snail.hash, err |-> fast.err, panic |-> FALSE]

\* What SetupGenesisBlock returns: [db, config, fastHash, snailHash, err, panic].
SetupGenesisBlock(d, genesis) ==
    IF genesis # NilGenesis /\ genesis.Config = NoConfig
    THEN [db |-> d, config |-> AllMinervaProtocolChanges, fastHash |-> ZeroHash,
          snailHash |-> ZeroHash, err |-> errGenesisNoConfig, panic |-> FALSE]
    ELSE LET fast == setupFastGenesisBlock(d, genesis) IN
         IF fast.panic
         THEN [db |-> fast.db, config |-> NoConfig, fastHash |-> ZeroHash,
               snailHash |-> ZeroHash, err |-> NoErr, panic |-> TRUE]
         ELSE LET snail == setupSnailGenesisBlock(fast.db, genesis) IN
              IF snail.panic
              THEN [db |-> snail.db, config |-> NoConfig, fastHash |-> ZeroHash,
                    snailHash |-> ZeroHash, err |-> NoErr, panic |-> TRUE]
              ELSE [db |-> snail.db, config |-> fast.config, fastHash |-> fast.hash,
                    snailHash |-> snail.hash, err |-> fast.err, panic |-> FALSE]

(***************************************************************************)
(* The calls made on the database.                                         *)
(***************************************************************************)
\* The record of a call.
Call(op, genesis, pre, config, fastHash, snailHash, err, panic) ==
    [op |-> op, genesis |-> genesis, pre |-> pre, config |-> config,
     fastHash |-> fastHash, snailHash |-> snailHash, err |-> err, panic |-> panic]

NoCall == Call("none", NilGenesis, EmptyDB, NoConfig, ZeroHash, ZeroHash, NoErr, FALSE)

\* A caller runs SetupGenesisBlock(db, genesis).
DoSetupGenesisBlock(genesis) ==
    LET r == SetupGenesisBlock(db, genesis) IN
    /\ db' = r.db
    /\ last' = Call("SetupGenesisBlock", genesis, db, r.config, r.fastHash, r.snailHash, r.err, r.panic)
    /\ UNCHANGED exceptGenesis

\* A caller runs g.MustFastCommit(db) on a database without a fast genesis block.
MustFastCommit(g) ==
    LET c == CommitFast(db, g) IN
    /\ ReadCanonicalHash(db, 0) = ZeroHash
    /\ db' = c.db
    /\ last' = Call("MustFastCommit", g, db, NoConfig, c.block, ZeroHash, c.err, c.err # NoErr)
    /\ UNCHANGED exceptGenesis

\* A caller runs g.MustSnailCommit(db) on a database without a snail genesis block.
MustSnailCommit(g) ==
    LET c == CommitSnail(db, g) IN
    /\ ReadSnailCanonicalHash(db, 0) = ZeroHash
    /\ db' = c.db
    /\ last' = Call("MustSnailCommit", g, db, NoConfig, ZeroHash, c.block, c.err, c.err # NoErr)
    /\ UNCHANGED exceptGenesis

\* The fast chain imports the next block on top of its head.
InsertChain ==
    /\ db.headHeaderHash # ZeroHash
    /\ NumberOf(db.headHeaderHash) < MaxHeight
    /\ LET n == NumberOf(db.headHeaderHash) + 1
           block == <<"fastchild", n, db.headHeaderHash>>
       IN db' = [db EXCEPT !.fastBlocks = @ \cup {block},
                           !.receipts = @ \cup {block},
                           !.fastCanon[n] = block,
                           !.headBlockHash = block,
                           !.headHeaderHash = block]
    /\ last' = Call("InsertChain", NilGenesis, db, NoConfig, ZeroHash, ZeroHash, NoErr, FALSE)
    /\ UNCHANGED exceptGenesis


(***************************************************************************)
(* Part II.  The BFT engine: the rounds of one fast-block height.          *)
(*                                                                         *)
(* A committee of NumValidators members, of which the last MaxFaulty are   *)
(* Byzantine, runs Propose -> Prevote -> Precommit -> Commit; a round that *)
(* times out is followed by the next one.  Votes are flooded to all peers, *)
(* so every member reads the same sets of signed messages.                 *)
(***************************************************************************)
\* Size of the committee: the four fixed members of the main-net genesis.
NumValidators == 4
\* Highest round of the height the model enters; the last round is followed up to
\* its Prevote step, every round before it to its end.
MaxRound == 2

Validators == 1..NumValidators
\* Byzantine members tolerated: floor((N-1)/3).
MaxFaulty == (NumValidators - 1) \div 3
Byzantine == (NumValidators - MaxFaulty + 1)..NumValidators
Honest == Validators \ Byzantine
Rounds == 0..MaxRound

\* The candidate fast blocks of the height, and the nil vote.
Blocks == {"X", "Y"}
NilBlock == "nil"

\* leader = H(h, r) mod N: a fixed walk over the committee (members 1, 4, 3, 2, ...),
\* which makes the leader of round 1 a Byzantine member.
Proposer(r) == ((3 * r) % NumValidators) + 1

\* A quorum of half the committee.
QuorumHalf(S) == 2 * Cardinality(S) >= NumValidators

\* At least 2/3 of the committee.
Quorum(S) == 3 * Cardinality(S) >= 2 * NumValidators

Vote(v, r, b) == [src |-> v, round |-> r, block |-> b]

\* What Byzantine members have signed: every vote and, as leaders, every proposal of the flooded rounds.
ByzantineVotes == {Vote(v, r, b) : v \in Byzantine, r \in 0..(byzRound - 1), b \in Blocks \cup {NilBlock}}
ByzantineProposals == {<<r, b>> : r \in {q \in 0..(byzRound - 1) : Proposer(q) \in Byzantine}, b \in Blocks}

\* The members whose Prevote (Precommit) for block b in round r has been seen.
Prevoters(r, b) == {m.src : m \in {x \in prevotes \cup ByzantineVotes : x.round = r /\ x.block = b}}
Precommitters(r, b) == {m.src : m \in {x \in precommits \cup ByzantineVotes : x.round = r /\ x.block = b}}

BFTInit ==
    /\ round = [v \in Honest |-> 0]
    /\ step = [v \in Honest |-> "propose"]
    /\ lockedValue = [v \in Honest |-> NilBlock]
    /\ lockedRound = [v \in Honest |-> {}]
    /\ decision = [v \in Honest |-> NilBlock]
    /\ proposals = {}
    /\ prevotes = {}
    /\ precommits = {}
    /\ byzRound = 0

\* Propose: the leader of the round broadcasts a block, its locked block if it has one.
Propose(v) ==
    /\ step[v] = "propose"
    /\ Proposer(round[v]) = v
    /\ \A b \in Blocks : <<round[v], b>> \notin proposals
    /\ \E b \in Blocks :
         /\ lockedValue[v] # NilBlock => b = lockedValue[v]
         /\ proposals' = proposals \cup {<<round[v], b>>}
    /\ UNCHANGED <<round, step, lockedValue, lockedRound, decision, prevotes, precommits, byzRound>>
    /\ UNCHANGED exceptBFT

\* PrevoteChoices without the lock: a locked member prevotes whatever is proposed.
PrevoteChoicesUnlocked(v) ==
    {b \in Blocks : <<round[v], b>> \in proposals \cup ByzantineProposals} \cup {NilBlock}

\* The block v prevotes: its locked block; else the proposal it saw; else nil on timeout.
PrevoteChoices(v) ==
    IF lockedValue[v] # NilBlock
    THEN {lockedValue[v]}
    ELSE {b \in Blocks : <<round[v], b>> \in proposals \cup ByzantineProposals} \cup {NilBlock}

\* Prevote that may sign again in the same round.
PrevoteAgain(v) ==
    /\ step[v] \in {"propose", "prevote"}
    /\ \E b \in PrevoteChoices(v) :
         prevotes' = prevotes \cup {Vote(v, round[v], b)}
    /\ step' = [step EXCEPT ![v] = "prevote"]
    /\ UNCHANGED <<round, lockedValue, lockedRound, decision, proposals, precommits, byzRound>>
    /\ UNCHANGED exceptBFT

\* Prevote: sign one Prevote for the round.
Prevote(v) ==
    /\ step[v] = "propose"
    /\ \E b \in PrevoteChoices(v) :
         prevotes' = prevotes \cup {Vote(v, round[v], b)}
    /\ step' = [step EXCEPT ![v] = "prevote"]
    /\ UNCHANGED <<round, lockedValue, lockedRound, decision, proposals, precommits, byzRound>>
    /\ UNCHANGED exceptBFT

\* PrecommitChoices without the 2/3 Prevote condition.
PrecommitChoicesAny(v) ==
    {b \in Blocks : Prevoters(round[v], b) # {}} \cup {NilBlock}

\* The blocks v may precommit: a block with 2/3 prevotes in this round, else nil.
PrecommitChoices(v) ==
    {b \in Blocks : Quorum(Prevoters(round[v], b))} \cup {NilBlock}

\* Precommit: on 2/3 prevotes for a block lock it and precommit it; on 2/3 prevotes
\* for nil unlock and precommit nil; on timeout precommit nil and keep the lock.
Precommit(v) ==
    /\ step[v] = "prevote"
    /\ round[v] < MaxRound
    /\ \E b \in PrecommitChoices(v) :
         /\ precommits' = precommits \cup {Vote(v, round[v], b)}
         /\ IF b # NilBlock
            THEN /\ lockedValue' = [lockedValue EXCEPT ![v] = b]
                 /\ lockedRound' = [lockedRound EXCEPT ![v] = {round[v]}]
            ELSE IF Quorum(Prevoters(round[v], NilBlock))
            THEN /\ lockedValue' = [lockedValue EXCEPT ![v] = NilBlock]
                 /\ lockedRound' = [lockedRound EXCEPT ![v] = {}]
            ELSE UNCHANGED <<lockedValue, lockedRound>>
    /\ step' = [step EXCEPT ![v] = "precommit"]
    /\ UNCHANGED <<round, decision, proposals, prevotes, byzRound>>
    /\ UNCHANGED exceptBFT

\* Commit: 2/3 precommits for a block of some round finalize it.
Commit(v) ==
    /\ step[v] = "precommit"
    /\ \E r \in Rounds, b \in Blocks :
         /\ Quorum(Precommitters(r, b))
         /\ decision' = [decision EXCEPT ![v] = b]
    /\ step' = [step EXCEPT ![v] = "commit"]
    /\ UNCHANGED <<round, lockedValue, lockedRound, proposals, prevotes, precommits, byzRound>>
    /\ UNCHANGED exceptBFT

\* NextRound: the precommit timeout passed without a commit.
NextRound(v) ==
    /\ step[v] = "precommit"
    /\ round[v] < MaxRound
    /\ round' = [round EXCEPT ![v] = @ + 1]
    /\ step' = [step EXCEPT ![v] = "propose"]
    /\ UNCHANGED <<lockedValue, lockedRound, decision, proposals, prevotes, precommits, byzRound>>
    /\ UNCHANGED exceptBFT

\* The Byzantine members sign and flood conflicting votes and proposals for every round.
ByzantineFlood ==
    /\ byzRound = 0
    /\ byzRound' = MaxRound + 1
    /\ UNCHANGED <<round, step, lockedValue, lockedRound, decision, proposals, prevotes, precommits>>
    /\ UNCHANGED exceptBFT

(***************************************************************************)
(* Part III.  The snail block chain: a heaviest-chain store of PoW blocks, *)
(* each embedding fruits that reference fast blocks.  A snail block is     *)
(* [hash, parent, number, difficulty, fruits, td]; fruits is the sequence  *)
(* of the fast block hashes its fruits reference; hashes are numbers, so   *)
(* that they are ordered.                                                  *)
(***************************************************************************)
\* Number of snail blocks mined on top of the genesis block; their hashes are 1..MaxSnailBlocks.
MaxSnailBlocks == 3
\* Number of fast blocks, besides the genesis block, that fruits may reference.
MaxFastRef == 2

SnailHashes == 1..MaxSnailBlocks
FastRefs == 1..MaxFastRef
\* Difficulties a mined snail block may have.
SnailDifficulties == {FruitBlockRatio, 2 * FruitBlockRatio}
\* The fruit sequences a mined block may carry: one or two fruits.
FruitSeqs == {<<f>> : f \in FastRefs} \cup {<<f, g>> : f \in FastRefs, g \in FastRefs}

\* A fruit's difficulty is snailDifficulty / FRUIT_RATIO.
FruitDifficultyOf(difficulty) == difficulty \div FruitBlockRatio

\* I2: td = parent.td + block.difficulty + sum of the difficulties of the fruits.
SnailTd(ptd, difficulty, fruits) ==
    ptd + difficulty + Len(fruits) * FruitDifficultyOf(difficulty)

\* The snail genesis block: hash 0, one fruit referencing fast block 0.
GenesisSnailBlock ==
    [hash |-> 0, parent |-> 0, number |-> 0, difficulty |-> FruitBlockRatio, fruits |-> <<0>>,
     td |-> SnailTd(0, FruitBlockRatio, <<0>>)]

GetSnailBlockByHash(h) == CHOOSE b \in snailChain : b.hash = h
CurrentSnailBlock == GetSnailBlockByHash(snailCurrent)

\* The blocks of the chain that ends in block h, genesis included.
RECURSIVE SnailAncestors(_)
SnailAncestors(h) ==
    IF h = 0 THEN {GetSnailBlockByHash(0)}
    ELSE LET b == GetSnailBlockByHash(h) IN {b} \cup SnailAncestors(b.parent)

\* The canonical snail chain: the chain that ends in the current head.
CanonicalSnailChain == SnailAncestors(snailCurrent)

\* The fast blocks referenced by the fruits of a set of blocks.
FruitRefs(blocks) == UNION {{b.fruits[i] : i \in 1..Len(b.fruits)} : b \in blocks}

\* getFruit(fastHash): the canonical snail blocks that embed a fruit referencing fastHash.
GetFruit(fastHash) ==
    {b \in CanonicalSnailChain : \E i \in 1..Len(b.fruits) : b.fruits[i] = fastHash}

\* Fruit verification with duplicates looked up in the chain that is canonical when the
\* block arrives, not in the chain the block extends.
VerifyFruitsOnCurrent(parent, fruits) ==
    /\ \A i \in 1..Len(fruits), j \in 1..Len(fruits) : fruits[i] = fruits[j] => i = j
    /\ \A i \in 1..Len(fruits) : fruits[i] \notin FruitRefs(CanonicalSnailChain)

\* Fruit verification of a block on top of parent: no fast block is referenced twice, neither
\* inside the block nor by a fruit of the chain the block extends.
VerifyFruits(parent, fruits) ==
    /\ \A i \in 1..Len(fruits), j \in 1..Len(fruits) : fruits[i] = fruits[j] => i = j
    /\ \A i \in 1..Len(fruits) : fruits[i] \notin FruitRefs(SnailAncestors(parent))

\* Head adoption by strictly greater td only.
ReorgNeededStrict(td, hash) == td > CurrentSnailBlock.td

\* I5: the new block becomes the head when its td is strictly greater than the head's, or
\* equal with a smaller hash.
ReorgNeeded(td, hash) ==
    \/ td > CurrentSnailBlock.td
    \/ td = CurrentSnailBlock.td /\ hash < snailCurrent

SnailInit ==
    /\ snailChain = {GenesisSnailBlock}
    /\ snailCurrent = 0

\* insertChain of one mined snail block: verify, store with its td, re-index when heavier.
InsertSnailBlock(hash, parent, difficulty, fruits) ==
    /\ \A b \in snailChain : b.hash # hash
    /\ \E b \in snailChain : b.hash = parent
    /\ VerifyFruits(parent, fruits)
    /\ LET p == GetSnailBlockByHash(parent)
           td == SnailTd(p.td, difficulty, fruits)
       IN /\ snailChain' = snailChain \cup
                 {[hash |-> hash, parent |-> parent, number |-> p.number + 1,
                   difficulty |-> difficulty, fruits |-> fruits, td |-> td]}
          /\ snailCurrent' = IF ReorgNeeded(td, hash) THEN hash ELSE snailCurrent
    /\ UNCHANGED exceptSnail

(***************************************************************************)
(* Part IV.  The fast chain behind the API backend.  A fast block is       *)
(* [number, fork]: fork tells apart the blocks committed at one number     *)
(* before and after a SetHead rewind.                                      *)
(***************************************************************************)
\* Number of SetHead rewinds followed.
MaxRewinds == 1
\* Number of FastChainHeadEvent subscribers.
NumSubscribers == 2

Subscribers == 1..NumSubscribers

\* rpc.PendingBlockNumber and rpc.LatestBlockNumber; the other block numbers are themselves.
PendingBlockNumber == -2
LatestBlockNumber == -1
BlockNumbers == {PendingBlockNumber, LatestBlockNumber} \cup 0..MaxHeight

FastBlock(n, f) == [number |-> n, fork |-> f]
NilBlockPtr == [number |-> -1, fork |-> -1]
\* block.Header() and the state at header.Root: both stand for the block they belong to.
Header(block) == [of |-> block]
StateAt(block) == [root |-> block]

\* blockchain.CurrentBlock: the committed head.
CurrentBlock == fastChain[Len(fastChain)]

\* blockchain.GetBlockByNumber: the canonical block of that number, nil above the head.
GetBlockByNumber(n) ==
    IF n + 1 \in DOMAIN fastChain THEN fastChain[n + 1] ELSE NilBlockPtr

FastInit ==
    /\ fastChain = <<FastBlock(0, 0)>>
    /\ rewinds = 0
    /\ minerPending = FastBlock(1, 0)
    /\ chainHeadCh = [s \in Subscribers |-> <<>>]
    /\ received = [s \in Subscribers |-> <<>>]
    /\ apiResult = [method |-> "none", blockNr |-> LatestBlockNumber,
                    block |-> NilBlockPtr, header |-> Header(NilBlockPtr), state |-> StateAt(NilBlockPtr)]

\* InsertFastBlock whose event overtakes the events still waiting in the channels.
InsertFastBlockOvertaking ==
    /\ CurrentBlock.number < MaxHeight
    /\ LET block == FastBlock(CurrentBlock.number + 1, rewinds)
       IN /\ fastChain' = Append(fastChain, block)
          /\ chainHeadCh' = [s \in Subscribers |-> <<block>> \o chainHeadCh[s]]
    /\ UNCHANGED <<rewinds, minerPending, received, apiResult>>
    /\ UNCHANGED exceptFast

\* The fast chain commits the next block (a BFT-final block applied by InsertChain) and
\* publishes its FastChainHeadEvent: the feed sends it to every subscriber's channel.
InsertFastBlock ==
    /\ CurrentBlock.number < MaxHeight
    /\ LET block == FastBlock(CurrentBlock.number + 1, rewinds)
       IN /\ fastChain' = Append(fastChain, block)
          /\ chainHeadCh' = [s \in Subscribers |-> Append(chainHeadCh[s], block)]
    /\ UNCHANGED <<rewinds, minerPending, received, apiResult>>
    /\ UNCHANGED exceptFast

\* A subscriber takes the next event from its channel.
ReceiveChainHeadEvent(s) ==
    /\ chainHeadCh[s] # <<>>
    /\ received' = [received EXCEPT ![s] = Append(@, Head(chainHeadCh[s]))]
    /\ chainHeadCh' = [chainHeadCh EXCEPT ![s] = Tail(@)]
    /\ UNCHANGED <<fastChain, rewinds, minerPending, apiResult>>
    /\ UNCHANGED exceptFast

\* The miner builds a new candidate block on top of the committed head.
MinerCommitNewWork ==
    /\ minerPending' = FastBlock(CurrentBlock.number + 1, rewinds)
    /\ minerPending' # minerPending
    /\ UNCHANGED <<fastChain, rewinds, chainHeadCh, received, apiResult>>
    /\ UNCHANGED exceptFast

\* TrueAPIBackend.SetHead(number): rewinds the fast chain to block number.
SetHead(number) ==
    /\ rewinds < MaxRewinds
    /\ number < CurrentBlock.number
    /\ fastChain' = SubSeq(fastChain, 1, number + 1)
    /\ rewinds' = rewinds + 1
    /\ UNCHANGED <<minerPending, chainHeadCh, received, apiResult>>
    /\ UNCHANGED exceptFast

\* TrueAPIBackend.HeaderByNumber.
HeaderByNumber(blockNr) ==
    IF blockNr = PendingBlockNumber THEN Header(minerPending)
    ELSE IF blockNr = LatestBlockNumber THEN Header(CurrentBlock)
    ELSE Header(GetBlockByNumber(blockNr))

\* TrueAPIBackend.BlockByNumber.
BlockByNumber(blockNr) ==
    IF blockNr = PendingBlockNumber THEN CurrentBlock
    ELSE IF blockNr = LatestBlockNumber THEN CurrentBlock
    ELSE GetBlockByNumber(blockNr)

\* TrueAPIBackend.StateAndHeaderByNumber: <<state, header>>; a nil header gives a nil state.
StateAndHeaderByNumber(blockNr) ==
    IF blockNr = PendingBlockNumber
    THEN <<StateAt(CurrentBlock), Header(CurrentBlock)>>
    ELSE LET header == HeaderByNumber(blockNr)
         IN IF header = Header(NilBlockPtr)
            THEN <<StateAt(NilBlockPtr), Header(NilBlockPtr)>>
            ELSE <<StateAt(header.of), header>>

\* An RPC client queries the backend by block number.
QueryHeaderByNumber(blockNr) ==
    /\ apiResult' = [method |-> "HeaderByNumber", blockNr |-> blockNr, block |-> NilBlockPtr,
                     header |-> HeaderByNumber(blockNr), state |-> StateAt(NilBlockPtr)]
    /\ UNCHANGED <<fastChain, rewinds, minerPending, chainHeadCh, received>>
    /\ UNCHANGED exceptFast

QueryBlockByNumber(blockNr) ==
    /\ apiResult' = [method |-> "BlockByNumber", blockNr |-> blockNr, block |-> BlockByNumber(blockNr),
                     header |-> Header(NilBlockPtr), state |-> StateAt(NilBlockPtr)]
    /\ UNCHANGED <<fastChain, rewinds, minerPending, chainHeadCh, received>>
    /\ UNCHANGED exceptFast

QueryStateAndHeaderByNumber(blockNr) ==
    /\ apiResult' = [method |-> "StateAndHeaderByNumber", blockNr |-> blockNr, block |-> NilBlockPtr,
                     header |-> StateAndHeaderByNumber(blockNr)[2],
                     state |-> StateAndHeaderByNumber(blockNr)[1]]
    /\ UNCHANGED <<fastChain, rewinds, minerPending, chainHeadCh, received>>
    /\ UNCHANGED exceptFast

(***************************************************************************)
(* Part V.  The life cycle of the full node service (tai/backend.go).      *)
(*                                                                         *)
(* New opens the chain database, sets up the genesis blocks, checks the    *)
(* database version and builds the chains, pools and protocol manager;     *)
(* Start and Stop start and stop what New built.  A call is recorded with  *)
(* the steps it took, in the order it took them.                           *)
(***************************************************************************)
\* Number of times the node is started on the database (New at the first start and at every restart).
MaxNewCalls == 2

\* core.BlockChainVersion: the database version this release writes.
BlockChainVersion == 3

\* The versions other releases write: an older one, this one, a newer one.
ReleaseVersions == {BlockChainVersion - 1, BlockChainVersion, BlockChainVersion + 1}

\* rawdb.ReadDatabaseVersion / rawdb.WriteDatabaseVersion
ReadDatabaseVersion(d) == d.databaseVersion
WriteDatabaseVersion(d, v) == [d EXCEPT !.databaseVersion = v]

\* downloader.SyncMode: FullSync, FastSync, LightSync and a value that is none of the modes.
SyncModes == {"FullSync", "FastSync", "LightSync", "invalid"}
SyncModeIsValid(mode) == mode \in {"FullSync", "FastSync", "LightSync"}

\* The constructors called by New that can return an error.
Constructors == {"CreateDB", "NewBlockChain", "NewSnailBlockChain", "NewProtocolManager"}

\* The main-net genesis under a configuration with a fork block: a chain
\* whose head is at or past it is rewound to the block before it.
ForkGenesis == [DefaultGenesisBlock EXCEPT !.Config = [MainnetChainConfig EXCEPT !.Fork = {2}]]

\* The genesis specifications a node is configured with: none, the main
\* net, the main net with a fork block scheduled, the test net, one without
\* a chain configuration and one with Number > 0.
NodeGenesises ==
    {NilGenesis, DefaultGenesisBlock, ForkGenesis, DefaultTestnetGenesisBlock, EmptyGenesis, [CustomGenesis(0) EXCEPT !.Number = 1]}

\* tai.Config, as far as New reads it; Fails names the constructor that
\* returns an error in this call ("none" when all succeed).
NodeConfig(genesis, skip, mode, fails) ==
    [Genesis |-> genesis, SkipBcVersionCheck |-> skip, SyncMode |-> mode, Fails |-> fails]

\* Every genesis with and without the version check; a failing constructor
\* for the genesises a main-net database accepts; the sync modes.
NodeConfigs ==
    {NodeConfig(g, skip, "FullSync", "none") : g \in NodeGenesises, skip \in BOOLEAN}
    \cup {NodeConfig(g, skip, "FullSync", fails) :
            g \in {NilGenesis, ForkGenesis}, skip \in BOOLEAN, fails \in Constructors}
    \cup {NodeConfig(NilGenesis, FALSE, mode, "none") : mode \in SyncModes}

errLightSync == [kind |-> "can't run tai.Taichain in light sync mode, use les.LightTruechain"]
errInvalidSyncMode == [kind |-> "invalid sync mode"]
errVersionMismatch == [kind |-> "Blockchain DB version mismatch"]
errConstructor(c) == [kind |-> "constructor error", of |-> c]
errInvalidPeerConfig == [kind |-> "invalid peer config"]
errStartPbftServer == [kind |-> "start pbft server failed."]

\* What New returns: the database after the call, the error, whether a
\* *Taichain was returned, whether the call panicked, and its steps.
NewReturn(d, service, err, panic, steps) ==
    [db |-> d, service |-> service, err |-> err, panic |-> panic, steps |-> steps]

\* core.BlockChain.SetHead on the database: the canonical chain above
\* block number n is deleted and block n becomes the head.
RewindFastChain(d, n) ==
    IF d.headHeaderHash = ZeroHash \/ n >= NumberOf(d.headHeaderHash)
    THEN d
    ELSE [d EXCEPT !.fastBlocks = {b \in @ : NumberOf(b) <= n},
                   !.receipts = {b \in @ : NumberOf(b) <= n},
                   !.fastCanon = [k \in 0..MaxHeight |-> IF k > n THEN ZeroHash ELSE @[k]],
                   !.headBlockHash = d.fastCanon[n],
                   !.headHeaderHash = d.fastCanon[n]]

\* New from "var ( vmConfig ..." on: the chains, the rewind of an
\* incompatible config upgrade, the pools, the agent, the protocol manager
\* and the miner.
newComponents(d, config, setup, steps) ==
    IF config.Fails = "NewBlockChain"
    THEN NewReturn(d, FALSE, errConstructor("NewBlockChain"), FALSE, steps)
    ELSE IF config.Fails = "NewSnailBlockChain"
    THEN NewReturn(d, FALSE, errConstructor("NewSnailBlockChain"), FALSE, steps \o <<"NewBlockChain">>)
    ELSE LET chains == steps \o <<"NewBlockChain", "NewSnailBlockChain">>
             compat == setup.err.kind = "ConfigCompatError"
             rewound == IF compat
                        THEN WriteChainConfig(RewindFastChain(d, setup.err.RewindTo), setup.fastHash, setup.config)
                        ELSE d
             rewind == IF compat
                       THEN <<"blockchain.SetHead", "WriteChainConfig", "snailblockchain.SetHead", "WriteChainConfig">>
                       ELSE <<>>
             assembled == chains \o rewind \o <<"bloomIndexer.Start", "NewTxPool", "NewSnailPool", "NewElection", "NewPbftAgent">>
         IN IF config.Fails = "NewProtocolManager"
            THEN NewReturn(rewound, FALSE, errConstructor("NewProtocolManager"), FALSE, assembled)
            ELSE NewReturn(rewound, TRUE, NoErr, FALSE, assembled \o <<"NewProtocolManager", "miner.New", "NewOracle">>)

\* The test of New on the stored database version, without the exemption of version 0.
VersionMismatchZeroToo(bcVersion) == bcVersion # BlockChainVersion

\* The test of New on the stored database version.
VersionMismatch(bcVersion) == bcVersion # BlockChainVersion /\ bcVersion # 0

\* New from "tai := &Taichain{" on: the service object and the check of the database version.
newVersionCheck(d, config, setup, steps) ==
    LET made == steps \o <<"CreateConsensusEngine", "NewBloomIndexer">> IN
    IF ~config.SkipBcVersionCheck
    THEN IF VersionMismatch(ReadDatabaseVersion(d))
         THEN NewReturn(d, FALSE, errVersionMismatch, FALSE, made)
         ELSE newComponents(WriteDatabaseVersion(d, BlockChainVersion), config, setup,
                            made \o <<"WriteDatabaseVersion">>)
    ELSE newComponents(d, config, setup, made)

\* New after core.SetupGenesisBlock returned setup.
newAfterGenesis(config, setup) ==
    IF setup.panic
    THEN NewReturn(setup.db, FALSE, NoErr, TRUE, <<"CreateDB", "SetupGenesisBlock">>)
    ELSE IF setup.err # NoErr /\ setup.err.kind # "ConfigCompatError"
    THEN NewReturn(setup.db, FALSE, setup.err, FALSE, <<"CreateDB", "SetupGenesisBlock">>)
    ELSE newVersionCheck(setup.db, config, setup, <<"CreateDB", "SetupGenesisBlock">>)

\* tai.New(ctx, config) on the chain database d.
NewTaichain(d, config) ==
    IF config.SyncMode = "LightSync"
    THEN NewReturn(d, FALSE, errLightSync, FALSE, <<>>)
    ELSE IF ~SyncModeIsValid(config.SyncMode)
    THEN NewReturn(d, FALSE, errInvalidSyncMode, FALSE, <<>>)
    ELSE IF config.Fails = "CreateDB"
    THEN NewReturn(d, FALSE, errConstructor("CreateDB"), FALSE, <<>>)
    ELSE newAfterGenesis(config, SetupGenesisBlock(d, config.Genesis))

\* The record of a life-cycle call.
NodeCall(op, config, pre, err, panic, steps) ==
    [op |-> op, config |-> config, pre |-> pre, err |-> err, panic |-> panic, steps |-> steps]

NoNodeConfig == NodeConfig(NilGenesis, FALSE, "FullSync", "none")
NoNodeCall == NodeCall("none", NoNodeConfig, EmptyDB, NoErr, FALSE, <<>>)

\* No service object: before New, and after a New that returned an error.
NoTaichain == [state |-> "none", lesServer |-> FALSE, pbftServer |-> "nil"]

NodeInit ==
    /\ tai = NoTaichain
    /\ nodeCall = NoNodeCall
    /\ newCalls = 0

\* The node runs tai.New(ctx, config): at its first start and at every
\* restart after the service was stopped.
New(config) ==
    \E r \in {NewTaichain(db, config)} :
        /\ tai.state \in {"none", "stopped"}
        /\ newCalls < MaxNewCalls
        /\ newCalls' = newCalls + 1
        /\ db' = r.db
        /\ tai' = IF r.service
                  THEN [state |-> "constructed", lesServer |-> FALSE, pbftServer |-> "nil"]
                  ELSE NoTaichain
        /\ nodeCall' = NodeCall("New", config, db, r.err, r.panic, r.steps)
        /\ UNCHANGED <<last, exceptNode>>

\* Another release of the node has opened the database and written its
\* database version; the database holds the genesis blocks by then.
OpenedByRelease(version) ==
    /\ tai.state \in {"none", "stopped"}
    /\ ReadCanonicalHash(db, 0) # ZeroHash
    /\ ReadSnailCanonicalHash(db, 0) # ZeroHash
    /\ db' = WriteDatabaseVersion(db, version)
    /\ nodeCall' = NodeCall("OpenedByRelease", NoNodeConfig, db, NoErr, FALSE, <<"WriteDatabaseVersion">>)
    /\ UNCHANGED <<last, tai, newCalls, exceptNode>>

\* Taichain.AddLesServer
AddLesServer ==
    /\ tai.state = "constructed"
    /\ ~tai.lesServer
    /\ tai' = [tai EXCEPT !.lesServer = TRUE]
    /\ UNCHANGED <<genesisVars, nodeCall, newCalls, exceptNode>>

\* Taichain.startPbftServer: pbft is the outcome of crypto.ToECDSA,
\* tbft.NewNode and Node.Start ("badKey", "newNodeErr", "startErr", "ok").
\* The result is the pbftServer field after the call and the error.
PbftOutcomes == {"badKey", "newNodeErr", "startErr", "ok"}
startPbftServer(pbft) ==
    IF pbft = "badKey" THEN [pbftServer |-> "nil", err |-> [kind |-> "invalid committee key"]]
    ELSE IF pbft = "newNodeErr" THEN [pbftServer |-> "nil", err |-> [kind |-> "tbft.NewNode failed"]]
    ELSE IF pbft = "startErr" THEN [pbftServer |-> "created", err |-> [kind |-> "tbft Node.Start failed"]]
    ELSE [pbftServer |-> "running", err |-> NoErr]

\* Taichain.Start(srvr).  lightPeersOK is FALSE when LightServ > 0 and
\* LightPeers >= srvr.MaxPeers.
Start(lightPeersOK, pbft) ==
    LET les == IF tai.lesServer THEN <<"lesServer.Start">> ELSE <<>>
        server == startPbftServer(pbft)
        begun == <<"startBloomHandlers", "NewPublicNetAPI">>
        net == begun \o <<"protocolManager.Start">> \o les \o <<"startPbftServer">>
        all == net \o <<"agent.Start", "election.Start", "snailPool.Start", "protocolManager.Start2">> \o les
    IN
    /\ tai.state = "constructed"
    /\ IF ~lightPeersOK
       THEN /\ tai' = [tai EXCEPT !.state = "startFailed"]
            /\ nodeCall' = NodeCall("Start", NoNodeConfig, db, errInvalidPeerConfig, FALSE, begun)
       ELSE IF server.pbftServer = "nil"
       THEN /\ tai' = [tai EXCEPT !.state = "startFailed"]
            /\ nodeCall' = NodeCall("Start", NoNodeConfig, db, errStartPbftServer, FALSE, net)
       ELSE /\ tai' = [tai EXCEPT !.state = "started", !.pbftServer = server.pbftServer]
            /\ nodeCall' = NodeCall("Start", NoNodeConfig, db, NoErr, FALSE, all)
    /\ UNCHANGED <<genesisVars, newCalls, exceptNode>>

\* Taichain.stopPbftServer
stopPbftServer(service) == IF service.pbftServer # "nil" THEN <<"pbftServer.Stop">> ELSE <<>>

\* The steps of Taichain.Stop with the chain database closed first.
StopStepsDbFirst(service) ==
    <<"chainDb.Close">> \o stopPbftServer(service)
    \o <<"bloomIndexer.Close", "blockchain.Stop", "snailblockchain.Stop", "protocolManager.Stop">>
    \o (IF service.lesServer THEN <<"lesServer.Stop">> ELSE <<>>)
    \o <<"txPool.Stop", "snailPool.Stop", "miner.Stop", "eventMux.Stop", "close(shutdownChan)">>

\* The steps of Taichain.Stop, in order.
StopSteps(service) ==
    stopPbftServer(service)
    \o <<"bloomIndexer.Close", "blockchain.Stop", "snailblockchain.Stop", "protocolManager.Stop">>
    \o (IF service.lesServer THEN <<"lesServer.Stop">> ELSE <<>>)
    \o <<"txPool.Stop", "snailPool.Stop", "miner.Stop", "eventMux.Stop", "chainDb.Close", "close(shutdownChan)">>

\* Taichain.Stop()
Stop ==
    /\ tai.state \in {"constructed", "started", "startFailed"}
    /\ tai' = [tai EXCEPT !.state = "stopped"]
    /\ nodeCall' = NodeCall("Stop", NoNodeConfig, db, NoErr, FALSE, StopSteps(tai))
    /\ UNCHANGED <<genesisVars, newCalls, exceptNode>>

\* The fast chain of a started node imports the next block.
NodeInsertChain ==
    /\ tai.state = "started"
    /\ InsertChain

(***************************************************************************)
(* Part VI.  The committee of the fast genesis block: Genesis.ToFastBlock  *)
(* applied to genesis specifications with any committee.                   *)
(***************************************************************************)
\* Longest committee of the genesis specifications drawn (the main-net one has NumValidators members).
MaxCommittee == 2

\* Bytes that are no public key.
BadPubkeyBytes == "nokey"

RECURSIVE CommitteesOfLen(_)
CommitteesOfLen(n) ==
    IF n = 0 THEN {<<>>}
    ELSE {Append(c, k) : c \in CommitteesOfLen(n - 1), k \in Pubkeys \cup {BadPubkeyBytes}}

Committees ==
    UNION {CommitteesOfLen(n) : n \in 0..MaxCommittee} \cup {MainnetCommittee}

CommitteeGenesises ==
    {[g EXCEPT !.Committee = c] :
        g \in {DefaultGenesisBlock, DefaultTestnetGenesisBlock, EmptyGenesis, CustomGenesis(0)},
        c \in Committees}

NothingBuilt == [op |-> "none", genesis |-> NilGenesis, block |-> ZeroHash, panic |-> FALSE]

CommitteeInit == built = NothingBuilt

\* A caller runs g.ToFastBlock(db).
BuildFastBlock(g) ==
    /\ built' = IF SwitchInfoPanics(g.Committee)
                THEN [op |-> "ToFastBlock", genesis |-> g, block |-> ZeroHash, panic |-> TRUE]
                ELSE [op |-> "ToFastBlock", genesis |-> g, block |-> ToFastBlock(g), panic |-> FALSE]
    /\ UNCHANGED exceptCommittee

(***************************************************************************)
(* Part VII.  The metered message stream of the protocol (tai/metrics.go): *)
(* ReadMsg and WriteMsg count every message on a packets meter and a       *)
(* traffic meter chosen by the message code.                               *)
(***************************************************************************)
\* Number of messages that pass the stream.
MaxMessages == 2
\* Largest message size, in bytes.
MaxMsgSize == 2

\* The message codes the meters tell apart, and one they do not.
MsgCodes ==
    {"FastBlockHeadersMsg", "SnailBlockHeadersMsg", "FastBlockBodiesMsg", "SnailBlockBodiesMsg", "NodeDataMsg", "ReceiptsMsg",
     "NewFastBlockHashesMsg", "NewSnailBlockHashesMsg", "NewFastBlockMsg", "NewSnailBlockMsg", "TxMsg", "NewFruitMsg",
     "TbftNodeInfoMsg", "TbftNodeInfoHashMsg", "GetTbftNodeInfoMsg", "GetFastBlockHeadersMsg", "GetFastBlockBodiesMsg",
     "GetSnailBlockHeadersMsg", "GetSnailBlockBodiesMsg",
     "StatusMsg"}

\* The meters ReadMsg chooses for a message code.
ReadMsgMeters(code) ==
    IF code = "FastBlockHeadersMsg" THEN <<"reqFHeaderInPacketsMeter", "reqFHeaderInTrafficMeter">>
    ELSE IF code = "SnailBlockHeadersMsg" THEN <<"reqSHeaderInPacketsMeter", "reqSHeaderInTrafficMeter">>
    ELSE IF code = "FastBlockBodiesMsg" THEN <<"reqFBodyInPacketsMeter", "reqFBodyInTrafficMeter">>
    ELSE IF code = "SnailBlockBodiesMsg" THEN <<"reqSBodyInPacketsMeter", "reqSBodyInTrafficMeter">>
    ELSE IF code = "NodeDataMsg" THEN <<"reqStateInPacketsMeter", "reqStateInTrafficMeter">>
    ELSE IF code = "ReceiptsMsg" THEN <<"reqReceiptInPacketsMeter", "reqReceiptInTrafficMeter">>
    ELSE IF code = "NewFastBlockHashesMsg" THEN <<"propFHashInPacketsMeter", "propFHashInTrafficMeter">>
    ELSE IF code = "NewSnailBlockHashesMsg" THEN <<"propSHashInPacketsMeter", "propSHashInTrafficMeter">>
    ELSE IF code = "NewFastBlockMsg" THEN <<"propFBlockInPacketsMeter", "propFBlockInTrafficMeter">>
    ELSE IF code = "NewSnailBlockMsg" THEN <<"propSBlockInPacketsMeter", "propSBlockInTrafficMeter">>
    ELSE IF code = "TxMsg" THEN <<"propTxnInPacketsMeter", "propTxnInTrafficMeter">>
    ELSE IF code = "NewFruitMsg" THEN <<"propFtnInPacketsMeter", "propFtnInTrafficMeter">>
    ELSE IF code = "TbftNodeInfoMsg" THEN <<"propNodeInfoInPacketsMeter", "propNodeInfoInTrafficMeter">>
    ELSE IF code = "TbftNodeInfoHashMsg" THEN <<"propNodeInfoHashInPacketsMeter", "propNodeInfoHashInTrafficMeter">>
    ELSE IF code = "GetTbftNodeInfoMsg" THEN <<"getNodeInfoInPacketsMeter", "getNodeInfoInTrafficMeter">>
    ELSE IF code = "GetFastBlockHeadersMsg" THEN <<"getHeadInPacketsMeter", "getHeadInTrafficMeter">>
    ELSE IF code = "GetFastBlockBodiesMsg" THEN <<"getHeadInPacketsMeter", "getHeadInTrafficMeter">>
    ELSE IF code = "GetSnailBlockHeadersMsg" THEN <<"getBodyInPacketsMeter", "getBodyInTrafficMeter">>
    ELSE IF code = "GetSnailBlockBodiesMsg" THEN <<"getBodyInPacketsMeter", "getBodyInTrafficMeter">>
    ELSE <<"miscInPacketsMeter", "miscInTrafficMeter">>

\* The meters WriteMsg chooses for a message code.
WriteMsgMeters(code) ==
    IF code = "FastBlockHeadersMsg" THEN <<"reqFHeaderOutPacketsMeter", "reqFHeaderOutTrafficMeter">>
    ELSE IF code = "SnailBlockHeadersMsg" THEN <<"reqSHeaderOutPacketsMeter", "reqSHeaderOutTrafficMeter">>
    ELSE IF code = "FastBlockBodiesMsg" THEN <<"reqFBodyOutPacketsMeter", "reqFBodyOutTrafficMeter">>
    ELSE IF code = "SnailBlockBodiesMsg" THEN <<"reqSBodyOutPacketsMeter", "reqSBodyOutTrafficMeter">>
    ELSE IF code = "NodeDataMsg" THEN <<"reqStateOutPacketsMeter", "reqStateOutTrafficMeter">>
    ELSE IF code = "ReceiptsMsg" THEN <<"reqReceiptOutPacketsMeter", "reqReceiptOutTrafficMeter">>
    ELSE IF code = "NewFastBlockHashesMsg" THEN <<"propFHashOutPacketsMeter", "propFHashOutTrafficMeter">>
    ELSE IF code = "NewSnailBlockHashesMsg" THEN <<"propSHashOutPacketsMeter", "propSHashOutTrafficMeter">>
    ELSE IF code = "NewFastBlockMsg" THEN <<"propFBlockOutPacketsMeter", "propFBlockOutTrafficMeter">>
    ELSE IF code = "NewSnailBlockMsg" THEN <<"propSBlockOutPacketsMeter", "propSBlockOutTrafficMeter">>
    ELSE IF code = "TxMsg" THEN <<"propTxnOutPacketsMeter", "propTxnOutTrafficMeter">>
    ELSE IF code = "NewFruitMsg" THEN <<"propFtnOutPacketsMeter", "propFtnOutTrafficMeter">>
    ELSE IF code = "TbftNodeInfoMsg" THEN <<"propNodeInfoOutPacketsMeter", "propNodeInfoOutTrafficMeter">>
    ELSE IF code = "TbftNodeInfoHashMsg" THEN <<"propNodeInfoHashOutPacketsMeter", "propNodeInfoHashOutTrafficMeter">>
    ELSE IF code = "GetTbftNodeInfoMsg" THEN <<"getNodeInfoOutPacketsMeter", "getNodeInfoOutTrafficMeter">>
    ELSE IF code = "GetFastBlockHeadersMsg" THEN <<"getHeadOutPacketsMeter", "getHeadOutTrafficMeter">>
    ELSE IF code = "GetFastBlockBodiesMsg" THEN <<"getHeadInPacketsMeter", "getHeadOutTrafficMeter">>
    ELSE IF code = "GetSnailBlockHeadersMsg" THEN <<"getBodyOutPacketsMeter", "getBodyOutTrafficMeter">>
    ELSE IF code = "GetSnailBlockBodiesMsg" THEN <<"getBodyOutPacketsMeter", "getBodyOutTrafficMeter">>
    ELSE <<"miscOutPacketsMeter", "miscOutTrafficMeter">>

\* n numbers the messages that passed the stream.
NoMsg == [n |-> 0, dir |-> "none", code |-> "StatusMsg", size |-> 0, err |-> FALSE, packets |-> "", traffic |-> ""]

\* What meter m has counted: a meter that was never marked has counted nothing.
Count(m) == IF m \in DOMAIN meters THEN meters[m] ELSE 0

MeterInit ==
    /\ meters = [m \in {} |-> 0]
    /\ lastMsg = NoMsg

\* metrics.Meter.Mark(n) on the packets meter (1) and the traffic meter (size).
Mark(packets, traffic, size) ==
    [m \in DOMAIN meters \cup {packets, traffic} |->
        Count(m) + (IF m = packets THEN 1 ELSE 0) + (IF m = traffic THEN size ELSE 0)]

\* meteredMsgReadWriter.ReadMsg: err is the error of the wrapped stream.
ReadMsg(code, size, err) ==
    /\ lastMsg.n < MaxMessages
    /\ IF err
       THEN /\ meters' = meters
            /\ lastMsg' = [n |-> lastMsg.n + 1, dir |-> "in", code |-> code, size |-> size, err |-> TRUE,
                            packets |-> "", traffic |-> ""]
       ELSE /\ meters' = Mark(ReadMsgMeters(code)[1], ReadMsgMeters(code)[2], size)
            /\ lastMsg' = [n |-> lastMsg.n + 1, dir |-> "in", code |-> code, size |-> size, err |-> FALSE,
                            packets |-> ReadMsgMeters(code)[1], traffic |-> ReadMsgMeters(code)[2]]
    /\ UNCHANGED exceptMeter

\* meteredMsgReadWriter.WriteMsg: the message is counted, then written to
\* the wrapped stream, whose error is returned.
WriteMsg(code, size, err) ==
    /\ lastMsg.n < MaxMessages
    /\ meters' = Mark(WriteMsgMeters(code)[1], WriteMsgMeters(code)[2], size)
    /\ lastMsg' = [n |-> lastMsg.n + 1, dir |-> "out", code |-> code, size |-> size, err |-> err,
                    packets |-> WriteMsgMeters(code)[1], traffic |-> WriteMsgMeters(code)[2]]
    /\ UNCHANGED exceptMeter

(***************************************************************************)
(* Part VIII.  SetHead and SetSnailHead of the API backend next to the     *)
(* downloader.  A call takes its steps one at a time; the sync session     *)
(* imports blocks in between.                                              *)
(***************************************************************************)
\* Number of sync sessions the downloader runs.
MaxSessions == 2

NoSession == [id |-> 0, state |-> "none"]

\* downloader.Cancel: the running session is cancelled, its outstanding
\* requests are abandoned and its peers freed; it imports nothing more.
CancelSession(session) ==
    IF session.state = "active" THEN [session EXCEPT !.state = "cancelled"] ELSE session

\* The steps of a rewind with the chain rewound before the sync is cancelled.
SetHeadStepsRewindFirst(chain) ==
    IF chain = "fast" THEN <<"blockchain.SetHead", "downloader.Cancel">>
    ELSE <<"snailblockchain.SetHead", "downloader.Cancel">>

\* The steps of TrueAPIBackend.SetHead (chain = "fast") and SetSnailHead (chain = "snail"), in order.
SetHeadSteps(chain) ==
    IF chain = "fast" THEN <<"downloader.Cancel", "blockchain.SetHead">>
    ELSE <<"downloader.Cancel", "snailblockchain.SetHead">>

\* No call in progress.  pc is the number of steps taken.
NoSetHeadCall == [chain |-> "none", number |-> 0, pc |-> 0, began |-> 0]

\* The next step of the call in progress ("none" without one).
NextSetHeadStep ==
    IF setHeadCall.chain = "none" THEN "none"
    ELSE SetHeadSteps(setHeadCall.chain)[setHeadCall.pc + 1]

SyncInit ==
    /\ syncSession = NoSession
    /\ setHeadCall = NoSetHeadCall

\* The downloader starts a sync session (Synchronise).
Synchronise ==
    /\ syncSession.state # "active"
    /\ syncSession.id < MaxSessions
    /\ syncSession' = [id |-> syncSession.id + 1, state |-> "active"]
    /\ UNCHANGED <<setHeadCall, exceptSync>>

\* The running session imports the next fast block.
SyncImportFast ==
    /\ syncSession.state = "active"
    /\ InsertFastBlock

\* The running session imports the next snail block on top of the head.
SyncImportSnail ==
    /\ syncSession.state = "active"
    /\ CurrentSnailBlock.number + 1 \in SnailHashes
    /\ \E ref \in FastRefs :
          InsertSnailBlock(CurrentSnailBlock.number + 1, snailCurrent, FruitBlockRatio, <<ref>>)

\* The running session has imported everything and ends.
SyncDone ==
    /\ syncSession.state = "active"
    /\ syncSession' = [syncSession EXCEPT !.state = "done"]
    /\ UNCHANGED <<setHeadCall, exceptSync>>

\* A caller enters SetHead(number) or SetSnailHead(number) with a number below the head.
BeginSetHead(chain, number) ==
    /\ setHeadCall = NoSetHeadCall
    /\ rewinds < MaxRewinds
    /\ number < (IF chain = "fast" THEN CurrentBlock.number ELSE CurrentSnailBlock.number)
    /\ setHeadCall' = [chain |-> chain, number |-> number, pc |-> 0,
                        began |-> IF syncSession.state = "active" THEN syncSession.id ELSE 0]
    /\ UNCHANGED <<syncSession, exceptSync>>

\* snailblockchain.SetHead(number): the canonical blocks above number are deleted.
RewindSnailChain(number) ==
    /\ snailChain' = {b \in snailChain : b.number <= number \/ b \notin CanonicalSnailChain}
    /\ snailCurrent' = IF number < CurrentSnailBlock.number
                       THEN (CHOOSE b \in CanonicalSnailChain : b.number = number).hash
                       ELSE snailCurrent

\* blockchain.SetHead(number): the canonical blocks above number are deleted.
RewindFastBlocks(number) ==
    /\ fastChain' = IF number < CurrentBlock.number THEN SubSeq(fastChain, 1, number + 1) ELSE fastChain
    /\ rewinds' = rewinds + 1

\* The call in progress takes its next step and returns after the last one.
StepSetHead ==
    /\ setHeadCall # NoSetHeadCall
    /\ setHeadCall' = IF setHeadCall.pc + 1 = Len(SetHeadSteps(setHeadCall.chain))
                       THEN NoSetHeadCall
                       ELSE [setHeadCall EXCEPT !.pc = @ + 1]
    /\ IF NextSetHeadStep = "downloader.Cancel"
       THEN /\ syncSession' = CancelSession(syncSession)
            /\ UNCHANGED exceptSync
       ELSE IF NextSetHeadStep = "blockchain.SetHead"
       THEN /\ RewindFastBlocks(setHeadCall.number)
            /\ UNCHANGED <<syncSession, minerPending, chainHeadCh, received, apiResult>>
            /\ UNCHANGED <<genesisVars, bftVars, snailVars, nodeVars, committeeVars, meterVars, etherbaseVars>>
       ELSE /\ RewindSnailChain(setHeadCall.number)
            /\ rewinds' = rewinds + 1
            /\ UNCHANGED <<syncSession, fastChain, minerPending, chainHeadCh, received, apiResult>>
            /\ UNCHANGED <<genesisVars, bftVars, nodeVars, committeeVars, meterVars, etherbaseVars>>

(***************************************************************************)
(* Part IX.  The etherbase of the node: Taichain.Etherbase and             *)
(* Taichain.SetEtherbase called by concurrent callers.  A section between  *)
(* s.lock.Lock() (RLock) and its Unlock is one step; what a call does      *)
(* outside the lock is a step of its own.                                  *)
(***************************************************************************)
\* Number of etherbase calls begun in one behaviour.
MaxEtherbaseCalls == 4

\* The goroutines that call the service.
Callers == {"g1", "g2", "g3"}

\* common.Address{}
ZeroAddress == "0x0"
\* The addresses passed to SetEtherbase.
SetAddresses == {"a", "b"}
\* accounts[0].Address of the first wallet.
WalletAccount == "w"

NoEtherbaseCall == [op |-> "none", arg |-> ZeroAddress, pc |-> "idle", expect |-> ZeroAddress, ret |-> ZeroAddress]

\* ebNode.etherbase is s.etherbase, ebNode.coinbase is s.agent.committeeNode.Coinbase,
\* ebNode.miner is the etherbase the miner holds.  The history: settled is the
\* argument of the SetEtherbase that returned last with no SetEtherbase begun
\* since (ZeroAddress when there is none), ops the kinds of call begun, args
\* the arguments of the SetEtherbase calls begun, calls how many calls began.
EtherbaseInit ==
    /\ ebNode = [etherbase |-> ZeroAddress, coinbase |-> ZeroAddress, miner |-> ZeroAddress,
                 settled |-> ZeroAddress, ops |-> {}, args |-> {}, calls |-> 0]
    /\ ebCalls = [g \in Callers |-> NoEtherbaseCall]

\* A SetEtherbase call of some caller has begun and not returned.
SetInFlight(calls) == \E g \in Callers : calls[g].op = "SetEtherbase" /\ calls[g].pc # "done"

\* Caller g calls s.Etherbase().
BeginEtherbase(g) ==
    /\ ebCalls[g].pc \in {"idle", "done"}
    /\ ebNode.calls < MaxEtherbaseCalls
    /\ ebCalls' = [ebCalls EXCEPT ![g] = [op |-> "Etherbase", arg |-> ZeroAddress, pc |-> "read",
                                          expect |-> ebNode.settled, ret |-> ZeroAddress]]
    /\ ebNode' = [ebNode EXCEPT !.ops = @ \cup {"Etherbase"}, !.calls = @ + 1]
    /\ UNCHANGED exceptEtherbase

\* Etherbase: RLock; etherbase := s.etherbase; RUnlock; then the test of the
\* value read and of the wallets.  hasAccount is whether the first wallet
\* has an account.
EtherbaseRead(g, hasAccount) ==
    /\ ebCalls[g].op = "Etherbase" /\ ebCalls[g].pc = "read"
    /\ ebCalls' = [ebCalls EXCEPT ![g] =
          IF ebNode.etherbase # ZeroAddress
          THEN [@ EXCEPT !.pc = "done", !.ret = ebNode.etherbase]
          ELSE IF hasAccount
          THEN [@ EXCEPT !.pc = "write", !.arg = WalletAccount]
          ELSE [@ EXCEPT !.pc = "done", !.ret = ZeroAddress]]
    /\ UNCHANGED <<ebNode, exceptEtherbase>>

\* Etherbase: Lock; s.etherbase = etherbase; Unlock; return etherbase, nil
EtherbaseWrite(g) ==
    /\ ebCalls[g].op = "Etherbase" /\ ebCalls[g].pc = "write"
    /\ ebNode' = [ebNode EXCEPT !.etherbase = ebCalls[g].arg]
    /\ ebCalls' = [ebCalls EXCEPT ![g] = [@ EXCEPT !.pc = "done", !.ret = ebCalls[g].arg]]
    /\ UNCHANGED exceptEtherbase

\* Caller g calls s.SetEtherbase(a).  The Etherbase calls in flight are no
\* longer bound to the address that was set before.
BeginSetEtherbase(g, a) ==
    /\ ebCalls[g].pc \in {"idle", "done"}
    /\ ebNode.calls < MaxEtherbaseCalls
    /\ ebCalls' = [h \in Callers |->
          IF h = g THEN [op |-> "SetEtherbase", arg |-> a, pc |-> "lock",
                         expect |-> ZeroAddress, ret |-> ZeroAddress]
          ELSE [ebCalls[h] EXCEPT !.expect = IF ebCalls[h].pc = "done" THEN @ ELSE ZeroAddress]]
    /\ ebNode' = [ebNode EXCEPT !.ops = @ \cup {"SetEtherbase"}, !.args = @ \cup {a},
                                !.calls = @ + 1, !.settled = ZeroAddress]
    /\ UNCHANGED exceptEtherbase

\* SetEtherbase: Lock; s.etherbase = etherbase; s.agent.committeeNode.Coinbase = etherbase; Unlock
SetEtherbaseLocked(g) ==
    /\ ebCalls[g].op = "SetEtherbase" /\ ebCalls[g].pc = "lock"
    /\ ebNode' = [ebNode EXCEPT !.etherbase = ebCalls[g].arg, !.coinbase = ebCalls[g].arg]
    /\ ebCalls' = [ebCalls EXCEPT ![g] = [@ EXCEPT !.pc = "miner"]]
    /\ UNCHANGED exceptEtherbase

\* miner.SetEtherbase(addr): the miner takes the address.
MinerSetEtherbase(node, addr) == [node EXCEPT !.miner = addr]

\* SetEtherbase: s.miner.SetEtherbase(etherbase), and the return.
SetEtherbaseMiner(g) ==
    /\ ebCalls[g].op = "SetEtherbase" /\ ebCalls[g].pc = "miner"
    /\ ebCalls' = [ebCalls EXCEPT ![g] = [@ EXCEPT !.pc = "done"]]
    /\ ebNode' = [MinerSetEtherbase(ebNode, ebCalls[g].arg) EXCEPT
                     !.settled = IF SetInFlight(ebCalls') THEN ZeroAddress ELSE ebCalls[g].arg]
    /\ UNCHANGED exceptEtherbase

NextEtherbase ==
    \/ \E g \in Callers : BeginEtherbase(g)
    \/ \E g \in Callers, hasAccount \in BOOLEAN : EtherbaseRead(g, hasAccount)
    \/ \E g \in Callers : EtherbaseWrite(g)
    \/ \E g \in Callers, a \in SetAddresses \cup {ZeroAddress} : BeginSetEtherbase(g, a)
    \/ \E g \in Callers : SetEtherbaseLocked(g)
    \/ \E g \in Callers : SetEtherbaseMiner(g)

(***************************************************************************)
(* Specifications.                                                         *)
(***************************************************************************)
GenesisInit ==
    /\ db = EmptyDB
    /\ last = NoCall

Init == GenesisInit /\ BFTInit /\ SnailInit /\ FastInit /\ NodeInit /\ CommitteeInit /\ MeterInit /\ SyncInit /\ EtherbaseInit

Next ==
    \/ \E g \in Genesises \cup {NilGenesis} : DoSetupGenesisBlock(g)
    \/ \E g \in Genesises : MustFastCommit(g)
    \/ \E g \in Genesises : MustSnailCommit(g)
    \/ InsertChain

Spec == Init /\ [][Next]_vars

NextBFT ==
    \/ \E v \in Honest : Propose(v)
    \/ \E v \in Honest : Prevote(v)
    \/ \E v \in Honest : Precommit(v)
    \/ \E v \in Honest : Commit(v)
    \/ \E v \in Honest : NextRound(v)
    \/ ByzantineFlood

SpecBFT == Init /\ [][NextBFT]_vars

NextSnail ==
    \E hash \in SnailHashes, parent \in SnailHashes \cup {0}, difficulty \in SnailDifficulties, fruits \in FruitSeqs :
        InsertSnailBlock(hash, parent, difficulty, fruits)

SpecSnail == Init /\ [][NextSnail]_vars

NextFast ==
    \/ InsertFastBlock
    \/ \E s \in Subscribers : ReceiveChainHeadEvent(s)
    \/ MinerCommitNewWork
    \/ \E number \in 0..MaxHeight : SetHead(number)
    \/ \E blockNr \in BlockNumbers : QueryHeaderByNumber(blockNr)
    \/ \E blockNr \in BlockNumbers : QueryBlockByNumber(blockNr)
    \/ \E blockNr \in BlockNumbers : QueryStateAndHeaderByNumber(blockNr)

SpecFast == Init /\ [][NextFast]_vars

NextNode ==
    \/ \E config \in NodeConfigs : New(config)
    \/ \E version \in ReleaseVersions : OpenedByRelease(version)
    \/ AddLesServer
    \/ \E lightPeersOK \in BOOLEAN, pbft \in PbftOutcomes : Start(lightPeersOK, pbft)
    \/ Stop
    \/ NodeInsertChain

SpecNode == Init /\ [][NextNode]_vars

NextCommittee == \E g \in CommitteeGenesises : BuildFastBlock(g)

SpecCommittee == Init /\ [][NextCommittee]_vars

NextMeter ==
    \/ \E code \in MsgCodes, size \in 1..MaxMsgSize, err \in BOOLEAN : ReadMsg(code, size, err)
    \/ \E code \in MsgCodes, size \in 1..MaxMsgSize, err \in BOOLEAN : WriteMsg(code, size, err)

SpecMeter == Init /\ [][NextMeter]_vars

NextSync ==
    \/ Synchronise
    \/ SyncImportFast
    \/ SyncImportSnail
    \/ SyncDone
    \/ \E chain \in {"fast", "snail"}, number \in 0..MaxHeight : BeginSetHead(chain, number)
    \/ StepSetHead

SpecSync == Init /\ [][NextSync]_vars

SpecEtherbase == Init /\ [][NextEtherbase]_vars

(***************************************************************************)
(* Properties of the genesis bootstrap (specification Spec).               *)
(***************************************************************************)
\* The last call was SetupGenesisBlock and it returned to its caller.
SetupReturned == last.op = "SetupGenesisBlock" /\ ~last.panic

\* A database without a genesis block of either chain.
HasNoGenesis(d) ==
    ReadCanonicalHash(d, 0) = ZeroHash /\ ReadSnailCanonicalHash(d, 0) = ZeroHash

\* The fast (snail) head of database d is block h, stored at number 0.
FastHeadIs(d, h) ==
    /\ d.headBlockHash = h /\ d.headHeaderHash = h
    /\ ReadCanonicalHash(d, 0) = h
    /\ h \in d.fastBlocks /\ NumberOf(h) = 0
SnailHeadIs(d, h) ==
    /\ d.snailHeadBlockHash = h /\ d.snailHeadHeaderHash = h
    /\ ReadSnailCanonicalHash(d, 0) = h
    /\ \E b \in d.snailBlocks : b.hash = h /\ b.number = 0

\* C1: SetupGenesisBlock on a database without genesis and with genesis == nil returns
\* MainnetChainConfig, MainnetGenesisHash, MainnetSnailGenesisHash and a nil error, and
\* afterwards the fast head and the snail head are those two blocks at number 0.
C1_DefaultGenesisWritten ==
    (last.op = "SetupGenesisBlock" /\ last.genesis = NilGenesis /\ HasNoGenesis(last.pre))
      => /\ ~last.panic
         /\ last.err = NoErr
         /\ last.config = MainnetChainConfig
         /\ last.fastHash = MainnetGenesisHash
         /\ last.snailHash = MainnetSnailGenesisHash
         /\ FastHeadIs(db, MainnetGenesisHash)
         /\ SnailHeadIs(db, MainnetSnailGenesisHash)

C1_Witness ==
    /\ last.op = "SetupGenesisBlock" /\ last.genesis = NilGenesis /\ HasNoGenesis(last.pre)
    /\ FastHeadIs(db, MainnetGenesisHash)
    /\ SnailHeadIs(db, MainnetSnailGenesisHash)

\* The case of C2: the database holds a fast genesis block and the genesis passed,
\* which has a chain configuration, builds another fast block.
MismatchCase ==
    /\ last.op = "SetupGenesisBlock"
    /\ last.genesis # NilGenesis
    /\ last.genesis.Config # NoConfig
    /\ ReadCanonicalHash(last.pre, 0) # ZeroHash
    /\ ToFastBlock(last.genesis) # ReadCanonicalHash(last.pre, 0)

\* C2: when the database already holds a fast genesis block and SetupGenesisBlock is called
\* with a genesis whose fast block hash differs, it returns GenesisMismatchError{stored, new}
\* with the new genesis' config and hash, and the stored canonical fast genesis block is
\* not overwritten.
C2_MismatchReturned ==
    MismatchCase
      => /\ ~last.panic
         /\ last.err = GenesisMismatchError(ReadCanonicalHash(last.pre, 0), ToFastBlock(last.genesis))
         /\ last.config = last.genesis.Config
         /\ last.fastHash = ToFastBlock(last.genesis)
         /\ ReadCanonicalHash(db, 0) = ReadCanonicalHash(last.pre, 0)
         /\ ReadCanonicalHash(db, 0) \in db.fastBlocks

\* C3: SetupGenesisBlock with a non-nil genesis whose Config is nil returns errGenesisNoConfig,
\* AllMinervaProtocolChanges and zero fast and snail hashes, whatever the database holds.
C3_NoConfigRejected ==
    (last.op = "SetupGenesisBlock" /\ last.genesis # NilGenesis /\ last.genesis.Config = NoConfig)
      => /\ ~last.panic
         /\ last.err = errGenesisNoConfig
         /\ last.config = AllMinervaProtocolChanges
         /\ last.fastHash = ZeroHash
         /\ last.snailHash = ZeroHash

C3_Witness ==
    /\ last.op = "SetupGenesisBlock"
    /\ last.genesis = EmptyGenesis
    /\ last.err = errGenesisNoConfig
    /\ ~HasNoGenesis(last.pre)
    /\ last.pre.headHeaderHash # ReadCanonicalHash(last.pre, 0)

\* C4: whenever SetupGenesisBlock returns a nil error, the fast hash returned is the hash of
\* the fast block stored as canonical block 0 and the snail hash returned is the hash of the
\* snail block stored as canonical block 0.
C4_ReturnedHashesAreStored ==
    (SetupReturned /\ last.err = NoErr)
      => /\ last.fastHash = ReadCanonicalHash(db, 0)
         /\ last.fastHash \in db.fastBlocks
         /\ last.snailHash = ReadSnailCanonicalHash(db, 0)
         /\ \E b \in db.snailBlocks : b.hash = last.snailHash

\* C5: after a successful SetupGenesisBlock(db, g), calling it again with the same g or with
\* genesis == nil returns a nil error and the same fast and snail hashes, and changes neither
\* the stored genesis blocks nor the head pointers.
C5_SetupIdempotent ==
    [][ ( /\ SetupReturned /\ last.err = NoErr
          /\ last'.op = "SetupGenesisBlock"
          /\ last'.genesis \in {last.genesis, NilGenesis} )
        => /\ ~last'.panic
           /\ last'.err = NoErr
           /\ last'.fastHash = last.fastHash
           /\ last'.snailHash = last.snailHash
           /\ db'.fastBlocks = db.fastBlocks /\ db'.fastCanon = db.fastCanon
           /\ db'.snailBlocks = db.snailBlocks /\ db'.snailCanon = db.snailCanon
           /\ db'.headBlockHash = db.headBlockHash /\ db'.headHeaderHash = db.headHeaderHash
           /\ db'.snailHeadBlockHash = db.snailHeadBlockHash
           /\ db'.snailHeadHeaderHash = db.snailHeadHeaderHash ]_vars

\* The case of C6: the call reached the compatibility check of setupFastGenesisBlock.
\* stored is the genesis hash, storedcfg and newcfg the two configurations, height the
\* number of the local head header.
CompatStored == ReadCanonicalHash(last.pre, 0)
CompatStoredCfg == ReadChainConfig(last.pre, CompatStored)
CompatNewCfg == configOrDefault(last.genesis, CompatStored)
CompatHeight == NumberOf(last.pre.headHeaderHash)
CompatCase ==
    /\ SetupReturned
    /\ CompatStored # ZeroHash
    /\ last.genesis # NilGenesis => (last.genesis.Config # NoConfig /\ ToFastBlock(last.genesis) = CompatStored)
    /\ last.genesis = NilGenesis => CompatStored = MainnetGenesisHash
    /\ CompatStoredCfg # NoConfig
    /\ last.pre.headHeaderHash \in last.pre.fastBlocks

C23_ErrorLeavesDatabase ==
    (SetupReturned /\ last.err # NoErr) => db = last.pre

\* C24: SetupGenesisBlock returns to its caller; for a genesis with Number > 0
\* on a database without genesis it returns the "can't commit genesis block
\* with number > 0" error and commits no canonical block and no head.
C24_GenesisNumberErrorReturned ==
    (last.op = "SetupGenesisBlock" /\ last.genesis # NilGenesis
        /\ last.genesis.Config # NoConfig /\ last.genesis.Number > 0
        /\ HasNoGenesis(last.pre))
      => /\ ~last.panic
         /\ last.err = errGenesisNumber
         /\ HasNoGenesis(db)
         /\ db.headBlockHash = last.pre.headBlockHash
         /\ db.snailHeadBlockHash = last.pre.snailHeadBlockHash

(***************************************************************************)
(* Properties of the BFT rounds (specification SpecBFT).                   *)
(***************************************************************************)
\* C7: no two different fast blocks of the height both have precommits from at least 2/3
\* of the committee, in whatever rounds, and no two honest members decide differently.
C7_Agreement ==
    /\ LET committed == {b \in Blocks : \E r \in Rounds : Quorum(Precommitters(r, b))}
       IN \A b1 \in committed, b2 \in committed : b1 = b2
    /\ \A v \in Honest, w \in Honest :
         (decision[v] # NilBlock /\ decision[w] # NilBlock) => decision[v] = decision[w]

C7_Witness ==
    /\ byzRound > 0
    /\ \E r \in Rounds, b \in Blocks :
         /\ Quorum(Precommitters(r, b))
         /\ r > 0
         /\ \E v \in Honest : decision[v] = b
         /\ \E v \in Honest : Vote(v, r, b) \notin precommits

\* C8: an honest member signs at most one Prevote value and at most one Precommit value
\* (a block or nil) in a round.
C8_OneVotePerRound ==
    /\ \A m1 \in prevotes, m2 \in prevotes :
         (m1.src = m2.src /\ m1.round = m2.round) => m1.block = m2.block
    /\ \A m1 \in precommits, m2 \in precommits :
         (m1.src = m2.src /\ m1.round = m2.round) => m1.block = m2.block

C8_Witness ==
    \E v \in Honest :
      /\ \E m1 \in prevotes, m2 \in prevotes :
           m1.src = v /\ m2.src = v /\ m1.round # m2.round /\ m1.block # m2.block
      /\ \E m1 \in precommits, m2 \in precommits :
           m1.src = v /\ m2.src = v /\ m1.round # m2.round /\ m1.block # m2.block

\* C9: an honest member has signed a Precommit for a block in a round only if Prevotes for
\* that block from at least 2/3 of the committee exist in the same round.
C9_PrecommitNeedsPolka ==
    \A m \in precommits :
      m.block # NilBlock => Quorum(Prevoters(m.round, m.block))

C9_Witness ==
    \E m \in precommits :
      /\ m.block # NilBlock
      /\ m.round > 0
      /\ Vote(m.src, m.round, m.block) \notin prevotes

\* C10: an honest member that precommitted block X in round r and prevoted another value in
\* a later round r2 has seen, in a round after r and before r2, Prevotes from at least 2/3 of
\* the committee for a value other than X.
C10_LockedBlockRule ==
    \A p \in precommits, q \in prevotes :
      (p.block # NilBlock /\ q.src = p.src /\ q.round > p.round /\ q.block # p.block)
        => \E r \in Rounds, b \in Blocks \cup {NilBlock} :
             /\ p.round < r /\ r < q.round
             /\ b # p.block
             /\ Quorum(Prevoters(r, b))

C10_Witness ==
    \E p \in precommits, q \in prevotes, k \in prevotes :
      /\ p.block # NilBlock
      /\ k.src = p.src /\ k.round = p.round + 1 /\ k.block = p.block
      /\ q.src = p.src /\ q.round = p.round + 2 /\ q.block \in Blocks \ {p.block}

(***************************************************************************)
(* Properties of the stored snail genesis (specification Spec).            *)
(***************************************************************************)
\* Sum of the difficulties of a set of fruits.
RECURSIVE SumFruitDifficulty(_)
SumFruitDifficulty(fruits) ==
    IF fruits = {} THEN 0
    ELSE LET f == CHOOSE x \in fruits : TRUE
         IN f.FruitDifficulty + SumFruitDifficulty(fruits \ {f})

\* C11: every snail block stored has total difficulty = parent td + its difficulty + the sum
\* of the difficulties of its embedded fruits; for the genesis block the parent td is 0.
C11_SnailTdIncludesFruits ==
    \A b \in db.snailBlocks :
      \A e \in db.snailTd :
        e[1] = b.hash => e[2] = 0 + b.difficulty + SumFruitDifficulty(b.fruits)

\* C12: the fruit embedded in the stored snail genesis block references the fast block stored
\* as canonical block 0 of the same database, by number and by hash.
C12_GenesisFruitIsCanonical ==
    \A b \in db.snailBlocks :
      b.hash = ReadSnailCanonicalHash(db, 0)
        => \A f \in b.fruits :
             /\ f.FastHash = ReadCanonicalHash(db, 0)
             /\ f.FastHash \in db.fastBlocks
             /\ f.FastNumber = 0

(***************************************************************************)
(* Properties of the snail chain (specification SpecSnail).                *)
(***************************************************************************)
\* The stored blocks no stored block builds on.
SnailTips == {b \in snailChain : \A c \in snailChain : c.hash = 0 \/ c.parent # b.hash}

C15_EventsIncreasing ==
    \A s \in Subscribers :
      \A i \in 1..Len(received[s]), j \in 1..Len(received[s]) :
        i < j => received[s][i].number < received[s][j].number

\* C15 amended: the events a subscriber has received and those waiting in its channel are, in
\* this order, the events published since it subscribed; their block numbers are strictly
\* increasing among the events of one fork, that is between two SetHead rewinds, and an
\* event of an earlier fork never follows one of a later fork.
C15_EventsIncreasingPerFork ==
    \A s \in Subscribers :
      LET events == received[s] \o chainHeadCh[s] IN
      \A i \in 1..Len(events), j \in 1..Len(events) :
        i < j => /\ events[i].fork <= events[j].fork
                 /\ events[i].fork = events[j].fork => events[i].number < events[j].number

C15_Witness ==
    \E s \in Subscribers :
      /\ Len(received[s]) >= 3
      /\ \E i \in 1..Len(received[s]) - 1 :
           received[s][i].number >= received[s][i + 1].number
      /\ \E t \in Subscribers : Len(received[t]) < Len(received[s])

\* C17: for the pending block number HeaderByNumber, BlockByNumber and StateAndHeaderByNumber
\* answer with the committed fast head, as they do for the latest block number.
C17_PendingIsCommittedHead ==
    apiResult.blockNr = PendingBlockNumber
      => /\ apiResult.method = "HeaderByNumber" => apiResult.header = Header(CurrentBlock)
         /\ apiResult.method = "BlockByNumber" => apiResult.block = CurrentBlock
         /\ apiResult.method = "StateAndHeaderByNumber"
              => /\ apiResult.header = Header(CurrentBlock)
                 /\ apiResult.state = StateAt(CurrentBlock)

(***************************************************************************)
(* Properties of the node life cycle (specification SpecNode).             *)
(***************************************************************************)
\* The steps of New that construct a chain, a pool or the protocol manager.
ChainPoolOrManager ==
    {"NewBlockChain", "NewSnailBlockChain", "NewTxPool", "NewSnailPool", "NewProtocolManager"}

StepsOf(call) == {call.steps[i] : i \in 1..Len(call.steps)}

\* New got as far as its check of the database version.
NewReachedVersionCheck == "NewBloomIndexer" \in StepsOf(nodeCall)

\* C16: a New without SkipBcVersionCheck on a database whose stored version
\* is neither 0 nor BlockChainVersion returns an error, returns no service,
\* and has constructed no chain, pool or protocol manager; a New that
\* reaches the check with a stored version of 0 or BlockChainVersion writes
\* BlockChainVersion and goes on to construct the fast chain.
C16_VersionMismatchRefused ==
    (nodeCall.op = "New" /\ ~nodeCall.config.SkipBcVersionCheck) =>
        /\ (ReadDatabaseVersion(nodeCall.pre) \notin {0, BlockChainVersion}) =>
              /\ nodeCall.err # NoErr
              /\ ~nodeCall.panic
              /\ tai = NoTaichain
              /\ StepsOf(nodeCall) \cap ChainPoolOrManager = {}
        /\ (ReadDatabaseVersion(nodeCall.pre) \in {0, BlockChainVersion} /\ NewReachedVersionCheck) =>
              /\ ReadDatabaseVersion(db) = BlockChainVersion
              /\ \/ "NewBlockChain" \in StepsOf(nodeCall)
                 \/ nodeCall.err = errConstructor("NewBlockChain")

\* New was refused for the database version alone: the genesis was accepted
\* and every constructor would have succeeded.
C16_Witness ==
    /\ nodeCall.op = "New"
    /\ ~nodeCall.config.SkipBcVersionCheck
    /\ nodeCall.config.Fails = "none"
    /\ ReadDatabaseVersion(nodeCall.pre) \notin {0, BlockChainVersion}
    /\ NewReachedVersionCheck
    /\ nodeCall.err = errVersionMismatch

\* The position of a step in the steps of the last call (0 when it was not taken).
StepIndex(name) ==
    IF name \in StepsOf(nodeCall)
    THEN CHOOSE i \in 1..Len(nodeCall.steps) : nodeCall.steps[i] = name
    ELSE 0

\* What Stop has to stop: the components every service holds, the LES
\* server when one was added and the PBFT server when Start created one.
StoppedByStop ==
    {"bloomIndexer.Close", "blockchain.Stop", "snailblockchain.Stop", "protocolManager.Stop",
     "txPool.Stop", "snailPool.Stop", "miner.Stop", "eventMux.Stop"}
    \cup (IF tai.lesServer THEN {"lesServer.Stop"} ELSE {})
    \cup (IF tai.pbftServer # "nil" THEN {"pbftServer.Stop"} ELSE {})

\* C19: in Taichain.Stop every component the service holds (PBFT server,
\* bloom indexer, fast chain, snail chain, protocol manager, LES server, tx
\* pool, snail pool, miner, event mux) is stopped before the chain database
\* is closed, and shutdownChan is closed after the database.
C19_DatabaseClosedLast ==
    nodeCall.op = "Stop" =>
        /\ \A c \in StoppedByStop : 0 < StepIndex(c) /\ StepIndex(c) < StepIndex("chainDb.Close")
        /\ 0 < StepIndex("chainDb.Close")
        /\ StepIndex("chainDb.Close") < StepIndex("close(shutdownChan)")

\* A started service with a LES server and a running PBFT server was stopped.
C19_Witness ==
    /\ nodeCall.op = "Stop"
    /\ tai.state = "stopped"
    /\ tai.lesServer
    /\ tai.pbftServer = "running"

(***************************************************************************)
(* Properties of the genesis committee (specification SpecCommittee).      *)
(***************************************************************************)
\* C20: the switch info of the block built by ToFastBlock lists the members
\* of Genesis.Committee in the same number and order, each with flag
\* StateUsedFlag, type TypeFixed and the address of its own public key as
\* committee base; the main-net default genesis gives NumValidators (4) members.
C20_GenesisCommitteeFixed ==
    (built.op = "ToFastBlock" /\ ~built.panic) =>
        LET members == SwitchInfos(built.block)
            committee == built.genesis.Committee
        IN /\ Len(members) = Len(committee)
           /\ \A i \in 1..Len(committee) :
                 /\ members[i].Publickey = committee[i]
                 /\ members[i].Flag = StateUsedFlag
                 /\ members[i].MType = TypeFixed
                 /\ members[i].CommitteeBase = <<"Keccak256[12:]", committee[i]>>
           /\ \A i, j \in 1..Len(committee) :
                 (members[i].CommitteeBase = members[j].CommitteeBase) <=> (committee[i] = committee[j])
           /\ (built.genesis = DefaultGenesisBlock => Len(members) = NumValidators)

\* The fast block of the main-net default genesis was built.
C20_Witness ==
    /\ built.op = "ToFastBlock"
    /\ ~built.panic
    /\ built.genesis = DefaultGenesisBlock
    /\ Len(SwitchInfos(built.block)) = 4

(***************************************************************************)
(* Properties of the metered message stream (specification SpecMeter).     *)
(***************************************************************************)
\* C18: a GetFastBlockBodies message that passed ReadMsg was counted on the
\* inbound get-bodies packets and traffic meters, and one that passed
\* WriteMsg on the outbound get-bodies packets and traffic meters.
C18_GetBodiesOnBodyMeters ==
    (lastMsg.code = "GetFastBlockBodiesMsg" /\ lastMsg.packets # "") =>
        /\ lastMsg.dir = "in" =>
              /\ lastMsg.packets = "getBodyInPacketsMeter"
              /\ lastMsg.traffic = "getBodyInTrafficMeter"
        /\ lastMsg.dir = "out" =>
              /\ lastMsg.packets = "getBodyOutPacketsMeter"
              /\ lastMsg.traffic = "getBodyOutTrafficMeter"

\* The classes of meter: each has an inbound and an outbound packets meter
\* and an inbound and an outbound traffic meter.
MeterClasses ==
    {"reqFHeader", "reqSHeader", "reqFBody", "reqSBody", "reqState", "reqReceipt",
     "propFHash", "propSHash", "propFBlock", "propSBlock", "propTxn", "propFtn",
     "propNodeInfo", "propNodeInfoHash", "getNodeInfo", "getHead", "getBody", "misc"}

\* The message codes that ask for headers, and those that ask for bodies.
HeaderRequestCodes == {"GetFastBlockHeadersMsg", "GetSnailBlockHeadersMsg"}
BodyRequestCodes == {"GetFastBlockBodiesMsg", "GetSnailBlockBodiesMsg"}

\* The last message was counted on the packets and the traffic meter of
\* class c in direction d ("In" or "Out").
CountedOn(c, d) ==
    /\ lastMsg.packets = c \o d \o "PacketsMeter"
    /\ lastMsg.traffic = c \o d \o "TrafficMeter"

\* C30: a successful ReadMsg is counted on the inbound packets meter and the
\* inbound traffic meter of one class, a WriteMsg on the outbound packets
\* meter and the outbound traffic meter of one class; header requests are
\* counted on the head meters, body requests on the body meters, codes not
\* listed on the misc meters; a failed ReadMsg is counted on no meter.
C30_MetersMatchDirectionAndClass ==
    /\ (lastMsg.dir = "in" /\ lastMsg.err) => (lastMsg.packets = "" /\ lastMsg.traffic = "")
    /\ (lastMsg.dir = "in" /\ ~lastMsg.err) =>
          /\ \E c \in MeterClasses : CountedOn(c, "In")
          /\ lastMsg.code \in HeaderRequestCodes => CountedOn("getHead", "In")
          /\ lastMsg.code \in BodyRequestCodes => CountedOn("getBody", "In")
          /\ lastMsg.code = "StatusMsg" => CountedOn("misc", "In")
    /\ lastMsg.dir = "out" =>
          /\ \E c \in MeterClasses : CountedOn(c, "Out")
          /\ lastMsg.code \in HeaderRequestCodes => CountedOn("getHead", "Out")
          /\ lastMsg.code \in BodyRequestCodes => CountedOn("getBody", "Out")
          /\ lastMsg.code = "StatusMsg" => CountedOn("misc", "Out")

\* What SetupGenesisBlock returned to the New of the last call.
NewGenesisResult == SetupGenesisBlock(nodeCall.pre, nodeCall.config.Genesis)

\* The last call is a New that ran SetupGenesisBlock, which returned.
NewRanSetup ==
    /\ nodeCall.op = "New"
    /\ "SetupGenesisBlock" \in StepsOf(nodeCall)
    /\ ~nodeCall.panic

\* C21: in a New whose genesis error is a ConfigCompatError both chains are
\* opened, then the fast chain and the snail chain are rewound, and the
\* chain config is written only after both rewinds; with any other genesis
\* error New returns that error and has constructed no chain, pool or
\* protocol manager.
C21_RewindBothThenWriteConfig ==
    NewRanSetup =>
        /\ (NewGenesisResult.err.kind = "ConfigCompatError"
              /\ ~VersionMismatch(ReadDatabaseVersion(nodeCall.pre))
              /\ nodeCall.config.Fails \notin {"NewBlockChain", "NewSnailBlockChain"}) =>
              /\ 0 < StepIndex("NewBlockChain")
              /\ StepIndex("NewBlockChain") < StepIndex("blockchain.SetHead")
              /\ StepIndex("NewSnailBlockChain") < StepIndex("blockchain.SetHead")
              /\ StepIndex("blockchain.SetHead") < StepIndex("snailblockchain.SetHead")
              /\ \A i \in 1..Len(nodeCall.steps) :
                    nodeCall.steps[i] = "WriteChainConfig" => StepIndex("snailblockchain.SetHead") < i
        /\ (NewGenesisResult.err.kind \notin {"nil", "ConfigCompatError"}) =>
              /\ nodeCall.err = NewGenesisResult.err
              /\ tai = NoTaichain
              /\ StepsOf(nodeCall) \cap ChainPoolOrManager = {}

(***************************************************************************)
(* Properties of Taichain.Start (specification SpecNode).                  *)
(***************************************************************************)
\* The last call is a Start that returned nil (an error).
StartReturnedNil == nodeCall.op = "Start" /\ nodeCall.err = NoErr
StartFailed == nodeCall.op = "Start" /\ nodeCall.err # NoErr

\* How many steps of the last call are the step name.
StepCount(name) == Cardinality({i \in 1..Len(nodeCall.steps) : nodeCall.steps[i] = name})

\* C25: Start returns nil only if the PBFT server was created and its own
\* Start succeeded; with an invalid committee key, a node that cannot be
\* created or a node whose Start fails, Start returns an error and starts
\* neither the agent nor the election nor the snail pool.
C25_StartNeedsRunningPbft ==
    nodeCall.op = "Start" =>
        /\ nodeCall.err = NoErr => tai.pbftServer = "running"
        /\ tai.pbftServer # "running" =>
              /\ nodeCall.err # NoErr
              /\ StepsOf(nodeCall) \cap {"agent.Start", "election.Start", "snailPool.Start"} = {}

\* C26: a Start that returns nil has started every subsystem exactly once, in
\* the order protocol manager (phase 1), LES server if attached, PBFT
\* server, PBFT agent, election, snail pool, protocol manager (phase 2).
C26_StartOnceInOrder ==
    StartReturnedNil =>
        /\ \A name \in {"protocolManager.Start", "startPbftServer", "agent.Start",
                         "election.Start", "snailPool.Start", "protocolManager.Start2"} :
              StepCount(name) = 1
        /\ StepCount("lesServer.Start") = (IF tai.lesServer THEN 1 ELSE 0)
        /\ tai.lesServer => /\ StepIndex("protocolManager.Start") < StepIndex("lesServer.Start")
                            /\ StepIndex("lesServer.Start") < StepIndex("startPbftServer")
        /\ StepIndex("protocolManager.Start") < StepIndex("startPbftServer")
        /\ StepIndex("startPbftServer") < StepIndex("agent.Start")
        /\ StepIndex("agent.Start") < StepIndex("election.Start")
        /\ StepIndex("election.Start") < StepIndex("snailPool.Start")
        /\ StepIndex("snailPool.Start") < StepIndex("protocolManager.Start2")

\* C27: a Start that returns an error leaves no subsystem it started
\* running: every protocolManager.Start and lesServer.Start among its steps
\* is followed by the matching Stop.
C27_FailedStartStopsWhatItStarted ==
    StartFailed =>
        \A i \in 1..Len(nodeCall.steps) :
            /\ nodeCall.steps[i] = "protocolManager.Start" =>
                  \E j \in (i + 1)..Len(nodeCall.steps) : nodeCall.steps[j] = "protocolManager.Stop"
            /\ nodeCall.steps[i] = "lesServer.Start" =>
                  \E j \in (i + 1)..Len(nodeCall.steps) : nodeCall.steps[j] = "lesServer.Stop"

(***************************************************************************)
(* Properties of the etherbase (specification SpecEtherbase).              *)
(***************************************************************************)
\* Every call begun has returned.
NoEtherbaseCallInFlight == \A g \in Callers : ebCalls[g].pc \in {"idle", "done"}

\* C28: when concurrent SetEtherbase calls (and no other etherbase call) have
\* all returned, the etherbase of the node, the coinbase of the agent's
\* committee node and the etherbase of the miner are one address, the
\* argument of one of the calls.
C28_SetEtherbaseAgrees ==
    (NoEtherbaseCallInFlight /\ ebNode.ops = {"SetEtherbase"}) =>
        /\ ebNode.etherbase = ebNode.coinbase
        /\ ebNode.etherbase = ebNode.miner
        /\ ebNode.etherbase \in ebNode.args

\* C29: an Etherbase call that began after SetEtherbase(a) with a non-zero
\* a had returned, and returned before the next SetEtherbase began, has
\* returned a.
C29_EtherbaseReturnsWhatWasSet ==
    \A g \in Callers :
        (ebCalls[g].op = "Etherbase" /\ ebCalls[g].pc = "done" /\ ebCalls[g].expect # ZeroAddress)
            => ebCalls[g].ret = ebCalls[g].expect

====
